---- MODULE Spec2Model ----
(***************************************************************************)
(* sky-save: the save-file codec of the library crate (sky-save/src).      *)
(*                                                                         *)
(* A byte buffer is modelled by its length and the set of the positions of *)
(* its 1 bits, in bitvec's Lsb0 order (bit 8*i+j is bit j of byte i); a    *)
(* BitSlice is the same, with its length in bits.  Every offset is the     *)
(* source's.  Integers wider than TLC's (the u128 of unknown_4, the 69-bit *)
(* IQ map, the u64 checksum accumulator) are kept as their binary digits.  *)
(***************************************************************************)
EXTENDS Integers, Sequences, FiniteSets, TLC

(* std::ops::Range<usize>, half open. *)
R(a, b) == [start |-> a, end |-> b]

(* ------------------------- offsets/save.rs ----------------------------- *)
MIN_SAVE_LEN == 131072
PRIMARY_SAVE == R(0, 46684)                                   \* 0x0..0xB65C
PRIMARY_READ_CHECKSUM == R(PRIMARY_SAVE.start, PRIMARY_SAVE.start + 4)
PRIMARY_CHECKSUM == R(PRIMARY_SAVE.start + 4, PRIMARY_SAVE.end)
BACKUP_SAVE == R(51200, 97884)                                \* 0xC800..0x17E5C
BACKUP_READ_CHECKSUM == R(BACKUP_SAVE.start, BACKUP_SAVE.start + 4)
BACKUP_CHECKSUM == R(BACKUP_SAVE.start + 4, BACKUP_SAVE.end)
QUICKSAVE == R(102400, 124928)                                \* 0x19000..0x1E800
QUICKSAVE_READ_CHECKSUM == R(QUICKSAVE.start, QUICKSAVE.start + 4)
QUICKSAVE_CHECKSUM == R(QUICKSAVE.start + 4, QUICKSAVE.end)

(* ------------------------- offsets/general.rs -------------------------- *)
TEAM_NAME == R(39246, 39256)                                  \* 0x994E..0x9958
HELD_MONEY_BITS == R(39180 * 8 + 6, 39180 * 8 + 6 + 24)       \* 0x990C
SP_EPISODE_HELD_MONEY_BITS == R(39183 * 8 + 6, 39183 * 8 + 6 + 24)  \* 0x990F
STORED_MONEY_BITS == R(39189 * 8 + 6, 39189 * 8 + 6 + 24)     \* 0x9915
EXPLORER_RANK == R(39256, 39260)                              \* 0x9958..0x995C
NUMBER_OF_ADVENTURERS == R(35696, 35700)                      \* 0x8B70..0x8B74

(* ------------------------- offsets/stored.rs --------------------------- *)
STORED_PKM_BIT_LEN == 362
STORED_PKM_COUNT == 720
STORED_PKM_BITS == R(1124 * 8, 1124 * 8 + STORED_PKM_BIT_LEN * STORED_PKM_COUNT)

offsets_stored_pokemon ==
  [ VALID |-> 0, LEVEL |-> R(1, 8), ID |-> R(8, 19), MET_AT |-> R(19, 27),
    MET_FLOOR |-> R(27, 34), UNKNOWN |-> 34, EVOLVED_AT_1 |-> R(35, 42),
    EVOLVED_AT_2 |-> R(42, 49), IQ |-> R(49, 59), HP |-> R(59, 69),
    ATTACK |-> R(69, 77), SP_ATTACK |-> R(77, 85), DEFENSE |-> R(85, 93),
    SP_DEFENSE |-> R(93, 101), EXP |-> R(101, 125), IQ_MAP |-> R(125, 194),
    TACTIC |-> R(194, 198), MOVE_1 |-> R(198, 219), MOVE_2 |-> R(219, 240),
    MOVE_3 |-> R(240, 261), MOVE_4 |-> R(261, 282), NAME |-> R(282, 362) ]

offsets_stored_moves ==
  [ VALID |-> 0, LINKED |-> 1, SWITCHED |-> 2, SET |-> 3, ID |-> R(4, 14),
    POWER_BOOST |-> R(14, 21) ]

(* stored.rs imports STORED_MOVE_BIT_LEN from offsets::stored, which does not
   define it in this tree; MOVE_1..MOVE_4 are 21 bits wide and
   copy_from_bitslice accepts no other length. *)
STORED_MOVE_BIT_LEN == 21

(* ------------------------- offsets/active.rs --------------------------- *)
ACTIVE_PKM_BIT_LEN == 546
ACTIVE_MOVE_BIT_LEN == 29
ACTIVE_PKM_COUNT == 4
ACTIVE_PKM_BITS ==
  R(33753 * 8 + 1, 33753 * 8 + 1 + ACTIVE_PKM_BIT_LEN * ACTIVE_PKM_COUNT)  \* 0x83D9

offsets_active_pokemon ==
  [ VALID |-> 0, UNKNOWN_1 |-> R(1, 5), LEVEL |-> R(5, 12), MET_AT |-> R(12, 20),
    MET_FLOOR |-> R(20, 27), UNKNOWN_2 |-> 27, IQ |-> R(28, 38),
    ROASTER_NUMBER |-> R(38, 48), UNKNOWN_3 |-> R(48, 70), ID |-> R(70, 81),
    CURRENT_HP |-> R(81, 91), MAX_HP |-> R(91, 101), ATTACK |-> R(101, 109),
    SP_ATTACK |-> R(109, 117), DEFENSE |-> R(117, 125), SP_DEFENSE |-> R(125, 133),
    EXP |-> R(133, 157), MOVE_1 |-> R(157, 186), MOVE_2 |-> R(186, 215),
    MOVE_3 |-> R(215, 244), MOVE_4 |-> R(244, 273), UNKNOWN_4 |-> R(273, 378),
    IQ_MAP |-> R(378, 447), TACTIC |-> R(447, 451), UNKNOWN_5 |-> R(451, 466),
    NAME |-> R(466, 546) ]

offsets_active_moves ==
  [ VALID |-> 0, LINKED |-> 1, SWITCHED |-> 2, SET |-> 3, SEALED |-> 4,
    ID |-> R(5, 15), PP |-> R(15, 22), POWER_BOOST |-> R(22, 29) ]

(* ------------------------- bitvec, Lsb0 -------------------------------- *)
(* bitarr![u8, Lsb0; 0; n] and BitVec::resize(n, false): n zero bits. *)
ZeroBits(n) == [len |-> n, ones |-> {}]

(* bits[i] *)
BitAt(bits, i) == i \in bits.ones

(* &bits[r]: the sub-slice of a range, re-indexed from 0. *)
Slice(bits, r) ==
  [ len |-> r.end - r.start,
    ones |-> { k - r.start : k \in { x \in bits.ones : r.start <= x /\ x < r.end } } ]

(* bits.set(i, b) *)
SetBit(bits, i, b) ==
  [ bits EXCEPT !.ones = IF b THEN @ \cup {i} ELSE @ \ {i} ]

(* bits[r].copy_from_bitslice(src); bitvec panics unless the lengths agree,
   and every call in the crate passes a source of the range's length. *)
CopyFromBitslice(bits, r, src) ==
  [ bits EXCEPT !.ones = { k \in @ : k < r.start \/ k >= r.end }
                           \cup { r.start + j : j \in src.ones } ]

RECURSIVE SumPow2(_)
SumPow2(S) ==
  IF S = {} THEN 0
  ELSE LET k == CHOOSE x \in S : TRUE IN 2 ^ k + SumPow2(S \ {k})

(* bits.load_le::<uN>() for a slice no wider than the integer (and than 30
   bits here): the slice read as a little-endian unsigned number. *)
LoadLe(bits) == SumPow2(bits.ones)

RECURSIVE BinaryDigits(_, _)
BinaryDigits(v, j) ==
  IF v = 0 THEN {}
  ELSE (IF v % 2 = 1 THEN {j} ELSE {}) \cup BinaryDigits(v \div 2, j + 1)

(* bits[r].store_le(v): the low (r.end - r.start) bits of v; the bits of v
   above the slice's width are dropped, a narrower v is zero-extended. *)
StoreLe(bits, r, v) ==
  CopyFromBitslice(bits, r,
    [ len |-> r.end - r.start,
      ones |-> { j \in BinaryDigits(v, 0) : j < r.end - r.start } ])

(* load_le::<u128>() / store_le(u128) of unknown_4: the value is kept as the
   set of the positions of its 1 digits. *)
LoadLeWide(bits) == bits.ones

(* store_le of a u128 cut to a u64 first. *)
StoreLeWide_as_u64(bits, r, digits) ==
  CopyFromBitslice(bits, r,
    [ len |-> r.end - r.start, ones |-> { j \in digits : j < 64 } ])

StoreLeWide(bits, r, digits) ==
  CopyFromBitslice(bits, r,
    [ len |-> r.end - r.start, ones |-> { j \in digits : j < r.end - r.start } ])

(* [u8; n].view_bits::<Lsb0>() of a byte sequence (1-indexed here). *)
ViewBits(bytes) ==
  [ len |-> 8 * Len(bytes),
    ones |-> UNION { { 8 * (i - 1) + j : j \in BinaryDigits(bytes[i], 0) }
                     : i \in 1..Len(bytes) } ]

(* BitVec::force_align + into_vec, then [0..n]: byte i of an unaligned slice. *)
BytesOf(bits, n) ==
  [ i \in 1..n |-> LoadLe(Slice(bits, R(8 * (i - 1), 8 * i))) ]

(* ------------------------- encoding.rs --------------------------------- *)
(* The match arms of pmd_seq_to_byte, in source order, as <<display form, byte>>.
   A display form is the sequence of its Unicode scalar values ("[END]" is
   <<91,69,78,68,93>>).  The arms the source comments out as duplicates (the
   bullet for 0x90 and 0x95, the space for 0xA0) are absent here as they are there. *)
pmd_seq_to_byte_arms ==
  { <<<<91,69,78,68,93>>,0>>, <<<<91,36,48,49,93>>,1>>, <<<<91,36,48,50,93>>,2>>, <<<<91,36,48,51,93>>,3>>,
    <<<<91,36,48,52,93>>,4>>, <<<<91,36,48,53,93>>,5>>, <<<<91,36,48,54,93>>,6>>, <<<<91,36,48,55,93>>,7>>,
    <<<<91,36,48,56,93>>,8>>, <<<<91,36,48,57,93>>,9>>, <<<<91,36,48,65,93>>,10>>, <<<<91,36,48,66,93>>,11>>,
    <<<<91,36,48,67,93>>,12>>, <<<<91,36,48,68,93>>,13>>, <<<<91,36,48,69,93>>,14>>, <<<<91,36,48,70,93>>,15>>,
    <<<<91,36,49,48,93>>,16>>, <<<<91,36,49,49,93>>,17>>, <<<<91,36,49,50,93>>,18>>, <<<<91,36,49,51,93>>,19>>,
    <<<<91,36,49,52,93>>,20>>, <<<<91,36,49,53,93>>,21>>, <<<<91,36,49,54,93>>,22>>, <<<<91,36,49,55,93>>,23>>,
    <<<<91,36,49,56,93>>,24>>, <<<<91,36,49,57,93>>,25>>, <<<<91,36,49,65,93>>,26>>, <<<<91,36,49,66,93>>,27>>,
    <<<<91,36,49,67,93>>,28>>, <<<<91,36,49,68,93>>,29>>, <<<<91,36,49,69,93>>,30>>, <<<<91,36,49,70,93>>,31>>,
    <<<<32>>,32>>, <<<<33>>,33>>, <<<<34>>,34>>, <<<<35>>,35>>,
    <<<<36>>,36>>, <<<<37>>,37>>, <<<<38>>,38>>, <<<<39>>,39>>,
    <<<<40>>,40>>, <<<<41>>,41>>, <<<<42>>,42>>, <<<<43>>,43>>,
    <<<<44>>,44>>, <<<<45>>,45>>, <<<<46>>,46>>, <<<<47>>,47>>,
    <<<<48>>,48>>, <<<<49>>,49>>, <<<<50>>,50>>, <<<<51>>,51>>,
    <<<<52>>,52>>, <<<<53>>,53>>, <<<<54>>,54>>, <<<<55>>,55>>,
    <<<<56>>,56>>, <<<<57>>,57>>, <<<<58>>,58>>, <<<<59>>,59>>,
    <<<<60>>,60>>, <<<<61>>,61>>, <<<<62>>,62>>, <<<<63>>,63>>,
    <<<<64>>,64>>, <<<<65>>,65>>, <<<<66>>,66>>, <<<<67>>,67>>,
    <<<<68>>,68>>, <<<<69>>,69>>, <<<<70>>,70>>, <<<<71>>,71>>,
    <<<<72>>,72>>, <<<<73>>,73>>, <<<<74>>,74>>, <<<<75>>,75>>,
    <<<<76>>,76>>, <<<<77>>,77>>, <<<<78>>,78>>, <<<<79>>,79>>,
    <<<<80>>,80>>, <<<<81>>,81>>, <<<<82>>,82>>, <<<<83>>,83>>,
    <<<<84>>,84>>, <<<<85>>,85>>, <<<<86>>,86>>, <<<<87>>,87>>,
    <<<<88>>,88>>, <<<<89>>,89>>, <<<<90>>,90>>, <<<<91,36,53,66,93>>,91>>,
    <<<<92>>,92>>, <<<<93>>,93>>, <<<<94>>,94>>, <<<<95>>,95>>,
    <<<<96>>,96>>, <<<<97>>,97>>, <<<<98>>,98>>, <<<<99>>,99>>,
    <<<<100>>,100>>, <<<<101>>,101>>, <<<<102>>,102>>, <<<<103>>,103>>,
    <<<<104>>,104>>, <<<<105>>,105>>, <<<<106>>,106>>, <<<<107>>,107>>,
    <<<<108>>,108>>, <<<<109>>,109>>, <<<<110>>,110>>, <<<<111>>,111>>,
    <<<<112>>,112>>, <<<<113>>,113>>, <<<<114>>,114>>, <<<<115>>,115>>,
    <<<<116>>,116>>, <<<<117>>,117>>, <<<<118>>,118>>, <<<<119>>,119>>,
    <<<<120>>,120>>, <<<<121>>,121>>, <<<<122>>,122>>, <<<<123>>,123>>,
    <<<<124>>,124>>, <<<<125>>,125>>, <<<<91,36,55,69,93>>,126>>, <<<<91,36,55,70,93>>,127>>,
    <<<<8364>>,128>>, <<<<91,36,56,49,93>>,129>>, <<<<91,36,56,50,93>>,130>>, <<<<91,36,56,51,93>>,131>>,
    <<<<91,36,56,52,93>>,132>>, <<<<8230>>,133>>, <<<<8224>>,134>>, <<<<91,36,56,55,93>>,135>>,
    <<<<710>>,136>>, <<<<8240>>,137>>, <<<<352>>,138>>, <<<<8249>>,139>>,
    <<<<338>>,140>>, <<<<91,101,93>>,141>>, <<<<381>>,142>>, <<<<91,232,93>>,143>>,
    <<<<8216>>,145>>, <<<<8217>>,146>>, <<<<8220>>,147>>, <<<<8221>>,148>>,
    <<<<91,101,114,93>>,150>>, <<<<91,114,101,93>>,151>>, <<<<126>>,152>>, <<<<8482>>,153>>,
    <<<<353>>,154>>, <<<<8250>>,155>>, <<<<339>>,156>>, <<<<8226>>,157>>,
    <<<<382>>,158>>, <<<<376>>,159>>, <<<<161>>,161>>, <<<<162>>,162>>,
    <<<<163>>,163>>, <<<<164>>,164>>, <<<<165>>,165>>, <<<<166>>,166>>,
    <<<<167>>,167>>, <<<<168>>,168>>, <<<<169>>,169>>, <<<<170>>,170>>,
    <<<<171>>,171>>, <<<<172>>,172>>, <<<<173>>,173>>, <<<<174>>,174>>,
    <<<<175>>,175>>, <<<<176>>,176>>, <<<<177>>,177>>, <<<<178>>,178>>,
    <<<<179>>,179>>, <<<<180>>,180>>, <<<<181>>,181>>, <<<<182>>,182>>,
    <<<<8222>>,183>>, <<<<8218>>,184>>, <<<<185>>,185>>, <<<<186>>,186>>,
    <<<<187>>,187>>, <<<<8592>>,188>>, <<<<9794>>,189>>, <<<<9792>>,190>>,
    <<<<191>>,191>>, <<<<192>>,192>>, <<<<193>>,193>>, <<<<194>>,194>>,
    <<<<195>>,195>>, <<<<196>>,196>>, <<<<197>>,197>>, <<<<198>>,198>>,
    <<<<199>>,199>>, <<<<200>>,200>>, <<<<201>>,201>>, <<<<202>>,202>>,
    <<<<203>>,203>>, <<<<204>>,204>>, <<<<205>>,205>>, <<<<206>>,206>>,
    <<<<207>>,207>>, <<<<208>>,208>>, <<<<209>>,209>>, <<<<210>>,210>>,
    <<<<211>>,211>>, <<<<212>>,212>>, <<<<213>>,213>>, <<<<214>>,214>>,
    <<<<215>>,215>>, <<<<216>>,216>>, <<<<217>>,217>>, <<<<218>>,218>>,
    <<<<219>>,219>>, <<<<220>>,220>>, <<<<221>>,221>>, <<<<222>>,222>>,
    <<<<223>>,223>>, <<<<224>>,224>>, <<<<225>>,225>>, <<<<226>>,226>>,
    <<<<227>>,227>>, <<<<228>>,228>>, <<<<229>>,229>>, <<<<230>>,230>>,
    <<<<231>>,231>>, <<<<232>>,232>>, <<<<233>>,233>>, <<<<234>>,234>>,
    <<<<235>>,235>>, <<<<236>>,236>>, <<<<237>>,237>>, <<<<238>>,238>>,
    <<<<239>>,239>>, <<<<240>>,240>>, <<<<241>>,241>>, <<<<242>>,242>>,
    <<<<243>>,243>>, <<<<244>>,244>>, <<<<245>>,245>>, <<<<246>>,246>>,
    <<<<247>>,247>>, <<<<248>>,248>>, <<<<249>>,249>>, <<<<250>>,250>>,
    <<<<251>>,251>>, <<<<252>>,252>>, <<<<253>>,253>>, <<<<254>>,254>>,
    <<<<255>>,255>> }

(* The match arms of byte_to_pmd_seq: entry b+1 is the display form of byte b. *)
byte_to_pmd_seq_arms ==
  << <<91,69,78,68,93>>, <<91,36,48,49,93>>, <<91,36,48,50,93>>, <<91,36,48,51,93>>, <<91,36,48,52,93>>, <<91,36,48,53,93>>, <<91,36,48,54,93>>, <<91,36,48,55,93>>,
     <<91,36,48,56,93>>, <<91,36,48,57,93>>, <<91,36,48,65,93>>, <<91,36,48,66,93>>, <<91,36,48,67,93>>, <<91,36,48,68,93>>, <<91,36,48,69,93>>, <<91,36,48,70,93>>,
     <<91,36,49,48,93>>, <<91,36,49,49,93>>, <<91,36,49,50,93>>, <<91,36,49,51,93>>, <<91,36,49,52,93>>, <<91,36,49,53,93>>, <<91,36,49,54,93>>, <<91,36,49,55,93>>,
     <<91,36,49,56,93>>, <<91,36,49,57,93>>, <<91,36,49,65,93>>, <<91,36,49,66,93>>, <<91,36,49,67,93>>, <<91,36,49,68,93>>, <<91,36,49,69,93>>, <<91,36,49,70,93>>,
     <<32>>, <<33>>, <<34>>, <<35>>, <<36>>, <<37>>, <<38>>, <<39>>,
     <<40>>, <<41>>, <<42>>, <<43>>, <<44>>, <<45>>, <<46>>, <<47>>,
     <<48>>, <<49>>, <<50>>, <<51>>, <<52>>, <<53>>, <<54>>, <<55>>,
     <<56>>, <<57>>, <<58>>, <<59>>, <<60>>, <<61>>, <<62>>, <<63>>,
     <<64>>, <<65>>, <<66>>, <<67>>, <<68>>, <<69>>, <<70>>, <<71>>,
     <<72>>, <<73>>, <<74>>, <<75>>, <<76>>, <<77>>, <<78>>, <<79>>,
     <<80>>, <<81>>, <<82>>, <<83>>, <<84>>, <<85>>, <<86>>, <<87>>,
     <<88>>, <<89>>, <<90>>, <<91,36,53,66,93>>, <<92>>, <<93>>, <<94>>, <<95>>,
     <<96>>, <<97>>, <<98>>, <<99>>, <<100>>, <<101>>, <<102>>, <<103>>,
     <<104>>, <<105>>, <<106>>, <<107>>, <<108>>, <<109>>, <<110>>, <<111>>,
     <<112>>, <<113>>, <<114>>, <<115>>, <<116>>, <<117>>, <<118>>, <<119>>,
     <<120>>, <<121>>, <<122>>, <<123>>, <<124>>, <<125>>, <<91,36,55,69,93>>, <<91,36,55,70,93>>,
     <<8364>>, <<91,36,56,49,93>>, <<91,36,56,50,93>>, <<91,36,56,51,93>>, <<91,36,56,52,93>>, <<8230>>, <<8224>>, <<91,36,56,55,93>>,
     <<710>>, <<8240>>, <<352>>, <<8249>>, <<338>>, <<91,101,93>>, <<381>>, <<91,232,93>>,
     <<8226>>, <<8216>>, <<8217>>, <<8220>>, <<8221>>, <<8226>>, <<91,101,114,93>>, <<91,114,101,93>>,
     <<126>>, <<8482>>, <<353>>, <<8250>>, <<339>>, <<8226>>, <<382>>, <<376>>,
     <<32>>, <<161>>, <<162>>, <<163>>, <<164>>, <<165>>, <<166>>, <<167>>,
     <<168>>, <<169>>, <<170>>, <<171>>, <<172>>, <<173>>, <<174>>, <<175>>,
     <<176>>, <<177>>, <<178>>, <<179>>, <<180>>, <<181>>, <<182>>, <<8222>>,
     <<8218>>, <<185>>, <<186>>, <<187>>, <<8592>>, <<9794>>, <<9792>>, <<191>>,
     <<192>>, <<193>>, <<194>>, <<195>>, <<196>>, <<197>>, <<198>>, <<199>>,
     <<200>>, <<201>>, <<202>>, <<203>>, <<204>>, <<205>>, <<206>>, <<207>>,
     <<208>>, <<209>>, <<210>>, <<211>>, <<212>>, <<213>>, <<214>>, <<215>>,
     <<216>>, <<217>>, <<218>>, <<219>>, <<220>>, <<221>>, <<222>>, <<223>>,
     <<224>>, <<225>>, <<226>>, <<227>>, <<228>>, <<229>>, <<230>>, <<231>>,
     <<232>>, <<233>>, <<234>>, <<235>>, <<236>>, <<237>>, <<238>>, <<239>>,
     <<240>>, <<241>>, <<242>>, <<243>>, <<244>>, <<245>>, <<246>>, <<247>>,
     <<248>>, <<249>>, <<250>>, <<251>>, <<252>>, <<253>>, <<254>>, <<255>> >>

Ok(v) == [ok |-> TRUE, value |-> v]
Err(e) == [ok |-> FALSE, error |-> e]

(* EncodingError *)
InvalidPmdCharacter(s) == [kind |-> "InvalidPmdCharacter", seq |-> s]
InvalidPmdStringLen == [kind |-> "InvalidPmdStringLen"]

(* The lookup with the first byte that displays as s winning, as if no arm
   of pmd_seq_to_byte were commented out. *)
pmd_seq_to_byte_first_arm(s) ==
  IF \E b \in 0..255 : byte_to_pmd_seq_arms[b + 1] = s
  THEN Ok(CHOOSE b \in 0..255 :
            /\ byte_to_pmd_seq_arms[b + 1] = s
            /\ \A c \in 0..(b - 1) : byte_to_pmd_seq_arms[c + 1] # s)
  ELSE Err(InvalidPmdCharacter(s))

pmd_seq_to_byte(s) ==
  IF \E arm \in pmd_seq_to_byte_arms : arm[1] = s
  THEN Ok((CHOOSE arm \in pmd_seq_to_byte_arms : arm[1] = s)[2])
  ELSE Err(InvalidPmdCharacter(s))

byte_to_pmd_seq(byte) == Ok(byte_to_pmd_seq_arms[byte + 1])

(* PmdChar::from_sequence: the byte is looked up by the display form; utf8 is
   the byte itself as a char for a bracketed form, the character otherwise. *)
PmdChar_from_sequence(seq) ==
  LET pmd == pmd_seq_to_byte(seq) IN
  IF ~pmd.ok THEN pmd
  ELSE Ok([ pmd |-> pmd.value,
            utf8 |-> IF Head(seq) = 91 THEN pmd.value ELSE Head(seq) ])

(* impl From<u8> for PmdChar: byte -> display form -> PmdChar, both unwrapped. *)
PmdChar_from_u8(value) ==
  PmdChar_from_sequence(byte_to_pmd_seq(value).value).value

(* PmdChar_from_u8 for each of the 256 bytes, evaluated once. *)
PmdCharOfByte == [ b \in 0..255 |-> PmdChar_from_u8(b) ] @@ << >>

(* impl From<&[u8]> for PmdString: one PmdChar pushed per byte. *)
PmdString_from_bytes(value) ==
  [ i \in 1..Len(value) |-> PmdCharOfByte[value[i]] ]

(* impl From<&BitSlice<u8, Lsb0>> for PmdString: the first ten bytes of the
   aligned slice. *)
PmdString_from_bits(value) == PmdString_from_bytes(BytesOf(value, 10))

(* to_save_bytes without the zero fill of the [0; 10] array. *)
to_save_bytes_unpadded(s) == [ i \in 1..Len(s) |-> s[i].pmd ]

(* PmdString::to_save_bytes: the pmd bytes in order, zero-filled to 10. *)
to_save_bytes(s) ==
  [ i \in 1..10 |-> IF i <= Len(s) THEN s[i].pmd ELSE 0 ]

(* ------------------------- stored.rs ----------------------------------- *)
StoredMove_from_bitslice(bits) ==
  LET m == offsets_stored_moves IN
  [ valid |-> BitAt(bits, m.VALID),
    linked |-> BitAt(bits, m.LINKED),
    switched |-> BitAt(bits, m.SWITCHED),
    set |-> BitAt(bits, m.SET),
    id |-> LoadLe(Slice(bits, m.ID)),
    power_boost |-> LoadLe(Slice(bits, m.POWER_BOOST)) ]

StoredMove_to_bits(self) ==
  LET m == offsets_stored_moves
      b0 == ZeroBits(STORED_MOVE_BIT_LEN)
      b1 == SetBit(b0, m.VALID, self.valid)
      b2 == SetBit(b1, m.LINKED, self.linked)
      b3 == SetBit(b2, m.SWITCHED, self.switched)
      b4 == SetBit(b3, m.SET, self.set)
      b5 == StoreLe(b4, m.ID, self.id)
  IN StoreLe(b5, m.POWER_BOOST, self.power_boost)

StoredPokemon_from_bitslice(value) ==
  LET p == offsets_stored_pokemon IN
  [ valid |-> BitAt(value, p.VALID),
    level |-> LoadLe(Slice(value, p.LEVEL)),
    id |-> LoadLe(Slice(value, p.ID)),
    met_at |-> LoadLe(Slice(value, p.MET_AT)),
    met_floor |-> LoadLe(Slice(value, p.MET_FLOOR)),
    unknown |-> BitAt(value, p.UNKNOWN),
    evolved_at_1 |-> LoadLe(Slice(value, p.EVOLVED_AT_1)),
    evolved_at_2 |-> LoadLe(Slice(value, p.EVOLVED_AT_2)),
    iq |-> LoadLe(Slice(value, p.IQ)),
    hp |-> LoadLe(Slice(value, p.HP)),
    attack |-> LoadLe(Slice(value, p.ATTACK)),
    sp_attack |-> LoadLe(Slice(value, p.SP_ATTACK)),
    defense |-> LoadLe(Slice(value, p.DEFENSE)),
    sp_defense |-> LoadLe(Slice(value, p.SP_DEFENSE)),
    exp |-> LoadLe(Slice(value, p.EXP)),
    iq_map |-> CopyFromBitslice(ZeroBits(72), R(0, 69), Slice(value, p.IQ_MAP)),
    tactic |-> LoadLe(Slice(value, p.TACTIC)),
    move_1 |-> StoredMove_from_bitslice(Slice(value, p.MOVE_1)),
    move_2 |-> StoredMove_from_bitslice(Slice(value, p.MOVE_2)),
    move_3 |-> StoredMove_from_bitslice(Slice(value, p.MOVE_3)),
    move_4 |-> StoredMove_from_bitslice(Slice(value, p.MOVE_4)),
    name |-> PmdString_from_bits(Slice(value, p.NAME)) ]

StoredPokemon_to_bits(self) ==
  LET p == offsets_stored_pokemon
      b0 == ZeroBits(STORED_PKM_BIT_LEN)
      b1 == SetBit(b0, p.VALID, self.valid)
      b2 == StoreLe(b1, p.LEVEL, self.level)
      b3 == StoreLe(b2, p.ID, self.id)
      b4 == StoreLe(b3, p.MET_AT, self.met_at)
      b5 == StoreLe(b4, p.MET_FLOOR, self.met_floor)
      b6 == SetBit(b5, 34, self.unknown)
      b7 == StoreLe(b6, p.EVOLVED_AT_1, self.evolved_at_1)
      b8 == StoreLe(b7, p.EVOLVED_AT_2, self.evolved_at_2)
      b9 == StoreLe(b8, p.IQ, self.iq)
      b10 == StoreLe(b9, p.HP, self.hp)
      b11 == StoreLe(b10, p.ATTACK, self.attack)
      b12 == StoreLe(b11, p.SP_ATTACK, self.sp_attack)
      b13 == StoreLe(b12, p.DEFENSE, self.defense)
      b14 == StoreLe(b13, p.SP_DEFENSE, self.sp_defense)
      b15 == StoreLe(b14, p.EXP, self.exp)
      b16 == CopyFromBitslice(b15, p.IQ_MAP, Slice(self.iq_map, R(0, 69)))
      b17 == StoreLe(b16, p.TACTIC, self.tactic)
      b18 == CopyFromBitslice(b17, p.MOVE_1,
               Slice(StoredMove_to_bits(self.move_1), R(0, STORED_MOVE_BIT_LEN)))
      b19 == CopyFromBitslice(b18, p.MOVE_2,
               Slice(StoredMove_to_bits(self.move_2), R(0, STORED_MOVE_BIT_LEN)))
      b20 == CopyFromBitslice(b19, p.MOVE_3,
               Slice(StoredMove_to_bits(self.move_3), R(0, STORED_MOVE_BIT_LEN)))
      b21 == CopyFromBitslice(b20, p.MOVE_4,
               Slice(StoredMove_to_bits(self.move_4), R(0, STORED_MOVE_BIT_LEN)))
  IN CopyFromBitslice(b21, p.NAME, ViewBits(to_save_bytes(self.name)))

(* ------------------------- active.rs ----------------------------------- *)
ActiveMove_from_bitslice(value) ==
  LET m == offsets_active_moves IN
  [ valid |-> BitAt(value, m.VALID),
    linked |-> BitAt(value, m.LINKED),
    switched |-> BitAt(value, m.SWITCHED),
    set |-> BitAt(value, m.SET),
    sealed |-> BitAt(value, m.SEALED),
    id |-> LoadLe(Slice(value, m.ID)),
    pp |-> LoadLe(Slice(value, m.PP)),
    power_boost |-> LoadLe(Slice(value, m.POWER_BOOST)) ]

(* to_bitvec writes valid, linked, switched and set, then id, pp and
   power_boost; it has no statement for moves::SEALED, whose bit stays 0. *)
ActiveMove_to_bitvec(self) ==
  LET m == offsets_active_moves
      b0 == ZeroBits(29)
      b1 == SetBit(b0, m.VALID, self.valid)
      b2 == SetBit(b1, m.LINKED, self.linked)
      b3 == SetBit(b2, m.SWITCHED, self.switched)
      b4 == SetBit(b3, m.SET, self.set)
      b5 == StoreLe(b4, m.ID, self.id)
      b6 == StoreLe(b5, m.PP, self.pp)
  IN StoreLe(b6, m.POWER_BOOST, self.power_boost)

ActivePokemon_from_bitslice(value) ==
  LET p == offsets_active_pokemon IN
  [ valid |-> BitAt(value, p.VALID),
    unknown_1 |-> LoadLe(Slice(value, p.UNKNOWN_1)),
    level |-> LoadLe(Slice(value, p.LEVEL)),
    met_at |-> LoadLe(Slice(value, p.MET_AT)),
    met_floor |-> LoadLe(Slice(value, p.MET_FLOOR)),
    unknown_2 |-> BitAt(value, p.UNKNOWN_2),
    iq |-> LoadLe(Slice(value, p.IQ)),
    roaster_number |-> LoadLe(Slice(value, p.ROASTER_NUMBER)),
    unknown_3 |-> LoadLe(Slice(value, p.UNKNOWN_3)),
    id |-> LoadLe(Slice(value, p.ID)),
    current_hp |-> LoadLe(Slice(value, p.CURRENT_HP)),
    max_hp |-> LoadLe(Slice(value, p.MAX_HP)),
    attack |-> LoadLe(Slice(value, p.ATTACK)),
    sp_attack |-> LoadLe(Slice(value, p.SP_ATTACK)),
    defense |-> LoadLe(Slice(value, p.DEFENSE)),
    sp_defense |-> LoadLe(Slice(value, p.SP_DEFENSE)),
    exp |-> LoadLe(Slice(value, p.EXP)),
    move_1 |-> ActiveMove_from_bitslice(Slice(value, p.MOVE_1)),
    move_2 |-> ActiveMove_from_bitslice(Slice(value, p.MOVE_2)),
    move_3 |-> ActiveMove_from_bitslice(Slice(value, p.MOVE_3)),
    move_4 |-> ActiveMove_from_bitslice(Slice(value, p.MOVE_4)),
    unknown_4 |-> LoadLeWide(Slice(value, p.UNKNOWN_4)),
    iq_map |-> CopyFromBitslice(ZeroBits(72), R(0, 69), Slice(value, p.IQ_MAP)),
    tactic |-> LoadLe(Slice(value, p.TACTIC)),
    unknown_5 |-> LoadLe(Slice(value, p.UNKNOWN_5)),
    name |-> PmdString_from_bytes(BytesOf(Slice(value, p.NAME), 10)) ]

ActivePokemon_to_bitvec(self) ==
  LET p == offsets_active_pokemon
      b0 == ZeroBits(ACTIVE_PKM_BIT_LEN)
      b1 == SetBit(b0, p.VALID, self.valid)
      b2 == StoreLe(b1, p.UNKNOWN_1, self.unknown_1)
      b3 == StoreLe(b2, p.LEVEL, self.level)
      b4 == StoreLe(b3, p.MET_AT, self.met_at)
      b5 == StoreLe(b4, p.MET_FLOOR, self.met_floor)
      b6 == SetBit(b5, p.UNKNOWN_2, self.unknown_2)
      b7 == StoreLe(b6, p.IQ, self.iq)
      b8 == StoreLe(b7, p.ROASTER_NUMBER, self.roaster_number)
      b9 == StoreLe(b8, p.UNKNOWN_3, self.unknown_3)
      b10 == StoreLe(b9, p.ID, self.id)
      b11 == StoreLe(b10, p.CURRENT_HP, self.current_hp)
      b12 == StoreLe(b11, p.MAX_HP, self.max_hp)
      b13 == StoreLe(b12, p.ATTACK, self.attack)
      b14 == StoreLe(b13, p.SP_ATTACK, self.sp_attack)
      b15 == StoreLe(b14, p.DEFENSE, self.defense)
      b16 == StoreLe(b15, p.SP_DEFENSE, self.sp_defense)
      b17 == StoreLe(b16, p.EXP, self.exp)
      b18 == CopyFromBitslice(b17, p.MOVE_1, ActiveMove_to_bitvec(self.move_1))
      b19 == CopyFromBitslice(b18, p.MOVE_2, ActiveMove_to_bitvec(self.move_2))
      b20 == CopyFromBitslice(b19, p.MOVE_3, ActiveMove_to_bitvec(self.move_3))
      b21 == CopyFromBitslice(b20, p.MOVE_4, ActiveMove_to_bitvec(self.move_4))
      b22 == StoreLeWide(b21, p.UNKNOWN_4, self.unknown_4)
      b23 == CopyFromBitslice(b22, p.IQ_MAP, Slice(self.iq_map, R(0, 69)))
      b24 == StoreLe(b23, p.TACTIC, self.tactic)
      b25 == StoreLe(b24, p.UNKNOWN_5, self.unknown_5)
  IN CopyFromBitslice(b25, p.NAME, ViewBits(to_save_bytes(self.name)))

(* ------------------------- save.rs ------------------------------------- *)
(* data.view_bits::<Lsb0>() of the byte buffer. *)
view_bits(data) == [len |-> 8 * data.len, ones |-> data.ones]

(* &data[range] as a byte sequence. *)
ByteSlice(data, range) ==
  [ i \in 1..(range.end - range.start) |->
      LoadLe(Slice(view_bits(data),
                   R(8 * (range.start + i - 1), 8 * (range.start + i)))) ]

(* ActiveSaveBlock as usize: the enum's discriminant is the block's start. *)
BlockStart(active_save_block) ==
  IF active_save_block = "Primary" THEN PRIMARY_SAVE.start ELSE BACKUP_SAVE.start

(* The addition with no carry from one byte to the next. *)
RECURSIVE AddWord_no_carry(_, _, _, _)
AddWord_no_carry(acc, word, i, carry) ==
  IF i > 8 THEN << >>
  ELSE LET s == acc[i] + (IF i <= 4 THEN word[i] ELSE 0)
       IN <<s % 256>> \o AddWord_no_carry(acc, word, i + 1, 0)

(* acc + u as u64 on a u64 kept as 8 little-endian base-256 digits. *)
RECURSIVE AddWord(_, _, _, _)
AddWord(acc, word, i, carry) ==
  IF i > 8 THEN << >>
  ELSE LET s == acc[i] + (IF i <= 4 THEN word[i] ELSE 0) + carry
       IN <<s % 256>> \o AddWord(acc, word, i + 1, s \div 256)

(* The fold of checksum over the chunks named in `chunks`. *)
RECURSIVE FoldChunks(_, _, _, _)
FoldChunks(data, start, chunks, acc) ==
  IF chunks = {} THEN acc
  ELSE LET c == CHOOSE x \in chunks : TRUE
           word == ByteSlice(data, R(start + 4 * c, start + 4 * c + 4))
       IN FoldChunks(data, start, chunks \ {c}, AddWord(acc, word, 1, 0))

(* checksum: the range in chunks of 4 bytes, each read as a little-endian u32
   and added to a u64; the sum cast to u32, as little-endian bytes.  A last
   chunk shorter than 4 bytes makes try_into().unwrap() panic.  An all-zero
   chunk adds 0, so the fold runs over the chunks that hold a 1 bit. *)
checksum(data, data_range) ==
  IF (data_range.end - data_range.start) % 4 # 0 THEN [panic |-> TRUE]
  ELSE LET inside == { k \in data.ones :
                         8 * data_range.start <= k /\ k < 8 * data_range.end }
           chunks == { (k \div 8 - data_range.start) \div 4 : k \in inside }
           sum == FoldChunks(data, data_range.start, chunks,
                             <<0, 0, 0, 0, 0, 0, 0, 0>>)
       IN [panic |-> FALSE, bytes |-> SubSeq(sum, 1, 4)]

load_save_slice(data, active_save_block, range) ==
  ByteSlice(data, R(range.start + BlockStart(active_save_block),
                    range.end + BlockStart(active_save_block)))

(* data[..].copy_from_slice(value) *)
CopyFromSlice(data, range, value) ==
  [ data EXCEPT !.ones =
      CopyFromBitslice(view_bits(data), R(8 * range.start, 8 * range.end),
                       ViewBits(value)).ones ]

store_save_slice(data, active_save_block, range, value) ==
  CopyFromSlice(data, R(range.start + BlockStart(active_save_block),
                        range.end + BlockStart(active_save_block)), value)

load_save_bits(bits, active_save_block, range) ==
  Slice(bits, R(range.start + BlockStart(active_save_block) * 8,
                range.end + BlockStart(active_save_block) * 8))

store_save_bits(data, active_save_block, range, value) ==
  [ data EXCEPT !.ones =
      CopyFromBitslice(view_bits(data),
                       R(range.start + BlockStart(active_save_block) * 8,
                         range.end + BlockStart(active_save_block) * 8),
                       value).ones ]

(* i32::from_le_bytes / i32::to_le_bytes (two's complement). *)
I32FromLeBytes(b) ==
  b[1] + 256 * b[2] + 65536 * b[3]
    + 16777216 * (IF b[4] >= 128 THEN b[4] - 256 ELSE b[4])
I32ToLeBytes(v) ==
  LET low == v % 16777216
      top == (v - low) \div 16777216
  IN << low % 256, (low \div 256) % 256, low \div 65536,
        IF top < 0 THEN top + 256 ELSE top >>

(* u32::from_le_bytes / u32::to_le_bytes; a u32 is kept as its two 16-bit
   halves. *)
U32FromLeBytes(b) == [lo |-> b[1] + 256 * b[2], hi |-> b[3] + 256 * b[4]]
U32ToLeBytes(v) == << v.lo % 256, v.lo \div 256, v.hi % 256, v.hi \div 256 >>

(* u32::to_le_bytes of a money value, a number below 2^31 here. *)
MoneyToLeBytes(v) ==
  << v % 256, (v \div 256) % 256, (v \div 65536) % 256, (v \div 16777216) % 256 >>

General_load(data, active_save_block) ==
  LET team_name == load_save_slice(data, active_save_block, TEAM_NAME)
      held_money == load_save_bits(view_bits(data), active_save_block, HELD_MONEY_BITS)
      sp_episode_held_money ==
        load_save_bits(view_bits(data), active_save_block, SP_EPISODE_HELD_MONEY_BITS)
      stored_money == load_save_bits(view_bits(data), active_save_block, STORED_MONEY_BITS)
      number_of_adventures ==
        load_save_slice(data, active_save_block, NUMBER_OF_ADVENTURERS)
      explorer_rank == load_save_slice(data, active_save_block, EXPLORER_RANK)
  IN [ team_name |-> PmdString_from_bytes(team_name),
       held_money |-> LoadLe(held_money),
       sp_episode_held_money |-> LoadLe(sp_episode_held_money),
       stored_money |-> LoadLe(stored_money),
       number_of_adventures |-> I32FromLeBytes(number_of_adventures),
       explorer_rank |-> U32FromLeBytes(explorer_rank) ]

(* General::save with each money value stored as a whole little-endian word
   at the byte its range starts in. *)
General_save_whole_words(self, data, active_save_block) ==
  LET d1 == store_save_slice(data, active_save_block, TEAM_NAME,
                             to_save_bytes(self.team_name))
      d2 == store_save_slice(d1, active_save_block, R(39180, 39184),
                             MoneyToLeBytes(self.held_money))
      d3 == store_save_slice(d2, active_save_block, R(39183, 39187),
                             MoneyToLeBytes(self.sp_episode_held_money))
      d4 == store_save_slice(d3, active_save_block, R(39189, 39193),
                             MoneyToLeBytes(self.stored_money))
      d5 == store_save_slice(d4, active_save_block, NUMBER_OF_ADVENTURERS,
                             I32ToLeBytes(self.number_of_adventures))
  IN store_save_slice(d5, active_save_block, EXPLORER_RANK,
                      U32ToLeBytes(self.explorer_rank))

General_save(self, data, active_save_block) ==
  LET d1 == store_save_slice(data, active_save_block, TEAM_NAME,
                             to_save_bytes(self.team_name))
      d2 == store_save_bits(d1, active_save_block, HELD_MONEY_BITS,
              Slice(ViewBits(MoneyToLeBytes(self.held_money)), R(0, 24)))
      d3 == store_save_bits(d2, active_save_block, SP_EPISODE_HELD_MONEY_BITS,
              Slice(ViewBits(MoneyToLeBytes(self.sp_episode_held_money)), R(0, 24)))
      d4 == store_save_bits(d3, active_save_block, STORED_MONEY_BITS,
              Slice(ViewBits(MoneyToLeBytes(self.stored_money)), R(0, 24)))
      d5 == store_save_slice(d4, active_save_block, NUMBER_OF_ADVENTURERS,
                             I32ToLeBytes(self.number_of_adventures))
  IN store_save_slice(d5, active_save_block, EXPLORER_RANK,
                      U32ToLeBytes(self.explorer_rank))

(* SaveError *)
InvalidSize == [kind |-> "InvalidSize"]
InvalidChecksum(pe, pf, be, bf) ==
  [ kind |-> "InvalidChecksum", pri_expected |-> pe, pri_found |-> pf,
    bak_expected |-> be, bak_found |-> bf ]
Io == [kind |-> "Io"]

(* A panic (an unwinding thread), as opposed to a returned Err. *)
Panic == [ok |-> FALSE, error |-> [kind |-> "panic"]]

(* The capacities of SkySave's two ArrayVec fields. *)
STORED_POKEMON_CAP == 550
ACTIVE_POKEMON_CAP == 4

(* bits.chunks(n): the number of chunks and chunk i (the last may be short). *)
ChunkCount(bits, n) == (bits.len + n - 1) \div n
Chunk(bits, n, i) ==
  Slice(bits, R(n * i, IF n * (i + 1) < bits.len THEN n * (i + 1) ELSE bits.len))

(* iter.collect::<ArrayVec<_, CAP>>() of n items.  With more items than CAP,
   arrayvec's FromIterator panics ("capacity exceeded in extend/from_iter");
   releases before that check stop taking items at CAP instead.  The release
   built against is not fixed under src/, so `extend` names which it is. *)
ArrayVec_collect(items, CAP, extend) ==
  IF Cardinality(DOMAIN items) <= CAP THEN Ok(items)
  ELSE IF extend = "panics" THEN Panic
  ELSE Ok([ i \in 0..(CAP - 1) |-> items[i] ])

(* The length check with <= for <. *)
TooShort_inclusive(data) == data.len <= MIN_SAVE_LEN

(* from_slice, line 184: the length check. *)
TooShort(data) == data.len < MIN_SAVE_LEN

(* from_slice, lines 188-198: the three stored checksums, the three computed
   ones, and whether each pair agrees. *)
Checksums(data) ==
  LET pri_read == ByteSlice(data, PRIMARY_READ_CHECKSUM)
      backup_read == ByteSlice(data, BACKUP_READ_CHECKSUM)
      quick_read == ByteSlice(data, QUICKSAVE_READ_CHECKSUM)
      pri_sum == checksum(data, PRIMARY_CHECKSUM).bytes
      backup_sum == checksum(data, BACKUP_CHECKSUM).bytes
      quick_sum == checksum(data, QUICKSAVE_CHECKSUM).bytes
  IN [ pri_read |-> pri_read, backup_read |-> backup_read, quick_read |-> quick_read,
       pri_sum |-> pri_sum, backup_sum |-> backup_sum, quick_sum |-> quick_sum,
       pri_matches |-> pri_sum = pri_read,
       backup_matches |-> backup_sum = backup_read,
       quick_matches |-> quick_sum = quick_read ]

(* The rejection with one mismatch being enough. *)
NeitherMatches_either(c) == ~c.pri_matches \/ ~c.backup_matches

(* from_slice, line 200: the file is rejected. *)
NeitherMatches(c) == ~c.pri_matches /\ ~c.backup_matches

(* The selection with the backup block preferred. *)
SelectBlock_backup_first(c) == IF c.backup_matches THEN "Backup" ELSE "Primary"

(* from_slice, lines 209-213. *)
SelectBlock(c) == IF c.pri_matches THEN "Primary" ELSE "Backup"

from_slice(data, extend) ==
  IF TooShort(data) THEN Err(InvalidSize)
  ELSE
    LET c == Checksums(data) IN
    IF NeitherMatches(c)
    THEN Err(InvalidChecksum(c.pri_read, c.pri_sum, c.backup_read, c.backup_sum))
    ELSE
      LET active_save_block == SelectBlock(c)
          general == General_load(data, active_save_block)
          sbits == load_save_bits(view_bits(data), active_save_block, STORED_PKM_BITS)
          stored_pokemon ==
            ArrayVec_collect(
              [ i \in 0..(ChunkCount(sbits, STORED_PKM_BIT_LEN) - 1) |->
                  StoredPokemon_from_bitslice(Chunk(sbits, STORED_PKM_BIT_LEN, i)) ],
              STORED_POKEMON_CAP, extend)
          abits == load_save_bits(view_bits(data), active_save_block, ACTIVE_PKM_BITS)
          active_pokemon ==
            ArrayVec_collect(
              [ i \in 0..(ChunkCount(abits, ACTIVE_PKM_BIT_LEN) - 1) |->
                  ActivePokemon_from_bitslice(Chunk(abits, ACTIVE_PKM_BIT_LEN, i)) ],
              ACTIVE_POKEMON_CAP, extend)
      IN
      IF ~stored_pokemon.ok THEN Panic
      ELSE IF ~active_pokemon.ok THEN Panic
      ELSE Ok([ data |-> data,
                active_save_block |-> active_save_block,
                quicksave_valid |-> c.quick_matches,
                general |-> general,
                stored_pokemon |-> stored_pokemon.value,
                active_pokemon |-> active_pokemon.value ])

(* fix_checksums with the primary slot left as it is. *)
fix_checksums_backup_and_quick(data) ==
  LET backup_sum == checksum(data, BACKUP_CHECKSUM).bytes
      quick_sum == checksum(data, QUICKSAVE_CHECKSUM).bytes
      d2 == CopyFromSlice(data, BACKUP_READ_CHECKSUM, backup_sum)
  IN CopyFromSlice(d2, QUICKSAVE_READ_CHECKSUM, quick_sum)

(* fix_checksums with the primary and backup sums taken over the whole
   block, the checksum slot included. *)
fix_checksums_over_slots(data) ==
  LET pri_sum == checksum(data, PRIMARY_SAVE).bytes
      backup_sum == checksum(data, BACKUP_SAVE).bytes
      quick_sum == checksum(data, QUICKSAVE_CHECKSUM).bytes
      d1 == CopyFromSlice(data, PRIMARY_READ_CHECKSUM, pri_sum)
      d2 == CopyFromSlice(d1, BACKUP_READ_CHECKSUM, backup_sum)
  IN CopyFromSlice(d2, QUICKSAVE_READ_CHECKSUM, quick_sum)

fix_checksums(data) ==
  LET pri_sum == checksum(data, PRIMARY_CHECKSUM).bytes
      backup_sum == checksum(data, BACKUP_CHECKSUM).bytes
      quick_sum == checksum(data, QUICKSAVE_CHECKSUM).bytes
      d1 == CopyFromSlice(data, PRIMARY_READ_CHECKSUM, pri_sum)
      d2 == CopyFromSlice(d1, BACKUP_READ_CHECKSUM, backup_sum)
  IN CopyFromSlice(d2, QUICKSAVE_READ_CHECKSUM, quick_sum)

(* The fold of save over the records' bits: record idx is copied to
   [idx * n, (idx + 1) * n) of n * count zero bits. *)
FoldRecords(bits, n, count) ==
  [ len |-> n * count,
    ones |-> UNION { { idx * n + j : j \in Slice(bits[idx], R(0, n)).ones }
                     : idx \in DOMAIN bits } ]

(* data.copy_within(src, dest) *)
CopyWithin(data, src, dest) ==
  [ data EXCEPT !.ones =
      CopyFromBitslice(view_bits(data),
                       R(8 * dest, 8 * (dest + src.end - src.start)),
                       Slice(view_bits(data), R(8 * src.start, 8 * src.end))).ones ]

(* SkySave::save, lines 269-312: the general record, the stored records and
   the active records written into the active block of the buffer. *)
SerializeViews(self) ==
  LET d1 == General_save(self.general, self.data, self.active_save_block)
      stored == FoldRecords([ idx \in DOMAIN self.stored_pokemon |->
                              StoredPokemon_to_bits(self.stored_pokemon[idx]) ],
                            STORED_PKM_BIT_LEN, STORED_PKM_COUNT)
      d2 == store_save_bits(d1, self.active_save_block, STORED_PKM_BITS,
              Slice(stored, R(0, STORED_PKM_BIT_LEN * STORED_PKM_COUNT)))
      active == FoldRecords([ idx \in DOMAIN self.active_pokemon |->
                              ActivePokemon_to_bitvec(self.active_pokemon[idx]) ],
                            ACTIVE_PKM_BIT_LEN, ACTIVE_PKM_COUNT)
  IN store_save_bits(d2, self.active_save_block, ACTIVE_PKM_BITS, active)

(* The copy with the quicksave block as its destination. *)
Mirror_to_quicksave(data, active_save_block) ==
  CopyWithin(data, IF active_save_block = "Primary" THEN PRIMARY_SAVE ELSE BACKUP_SAVE,
             QUICKSAVE.start)

(* SkySave::save, line 314: the active block copied over the other one. *)
Mirror(data, active_save_block) ==
  LET active_range == IF active_save_block = "Primary"
                      THEN PRIMARY_SAVE ELSE BACKUP_SAVE
      backup == IF active_save_block = "Primary"
                THEN BACKUP_SAVE.start ELSE PRIMARY_SAVE.start
  IN CopyWithin(data, active_range, backup)

(* save with the copy made before the views are written. *)
save_data_mirror_first(self) ==
  fix_checksums(SerializeViews(
    [self EXCEPT !.data = Mirror(self.data, self.active_save_block)]))

(* SkySave::save up to fs::write: the buffer that is handed to the write. *)
save_data(self) ==
  fix_checksums(Mirror(SerializeViews(self), self.active_save_block))

(* save that leaves the primary block selected once it has been rewritten. *)
SkySave_save_selects_primary(self) ==
  [self EXCEPT !.data = save_data(self), !.active_save_block = "Primary"]

(* SkySave::save as it leaves self: the buffer is the only field assigned. *)
SkySave_save(self) == [self EXCEPT !.data = save_data(self)]

(* ------------------------- inputs -------------------------------------- *)
(* Bit k of stored record i / active record i of the block starting at byte
   `block`, as a position in the file. *)
StoredBit(block, i, k) == 8 * block + STORED_PKM_BITS.start + STORED_PKM_BIT_LEN * i + k
ActiveBit(block, i, k) == 8 * block + ACTIVE_PKM_BITS.start + ACTIVE_PKM_BIT_LEN * i + k

(* The edits an input file is built from: each sets the named bits of an
   all-zero file. *)
Edits ==
  [ stored0_level |-> { StoredBit(0, 0, 1) },
    stored0_name_A0 |-> { StoredBit(0, 0, 282 + 5), StoredBit(0, 0, 282 + 7) },
    stored600_valid |-> { StoredBit(0, 600, 0) },
    active0_move1_sealed |-> { ActiveBit(0, 0, 157 + 4) },
    active1_unknown4 |-> { ActiveBit(0, 1, 377) },
    team_name_A |-> { 8 * TEAM_NAME.start, 8 * TEAM_NAME.start + 6 },
    pri_checksum |-> { 8 * PRIMARY_SAVE.start + 9 },
    bak_stored0_level |-> { StoredBit(BACKUP_SAVE.start, 0, 2) },
    bak_checksum |-> { 8 * BACKUP_SAVE.start + 17 },
    quick_payload |-> { 8 * (QUICKSAVE.start + 4) + 3 },
    quick_checksum |-> { 8 * QUICKSAVE.start },
    past_end |-> { 8 * MIN_SAVE_LEN + 1 } ]

(* The file of `len` bytes holding the edits `es`, with the stored checksum of
   each block named in `fixed` then set to the checksum of its payload, as the
   game leaves it. *)
FixBlock(data, name, block, fixed) ==
  IF name \notin fixed THEN data
  ELSE CopyFromSlice(data, R(block.start, block.start + 4),
                     checksum(data, R(block.start + 4, block.end)).bytes)

InputFile(len, es, fixed) ==
  LET raw == [ len |-> len,
               ones |-> { k \in UNION { Edits[e] : e \in es } : k < 8 * len } ]
      d1 == FixBlock(raw, "pri", PRIMARY_SAVE, fixed)
      d2 == FixBlock(d1, "bak", BACKUP_SAVE, fixed)
  IN FixBlock(d2, "quick", QUICKSAVE, fixed)

(* The files a session (load, edit, save, reload) is run on. *)
SessionInputs ==
  { InputFile(MIN_SAVE_LEN, {}, {}),
    InputFile(MIN_SAVE_LEN, {"stored0_level"}, {"pri"}),
    InputFile(MIN_SAVE_LEN, {"stored0_name_A0"}, {"pri"}),
    InputFile(MIN_SAVE_LEN, {"stored600_valid"}, {"pri"}),
    InputFile(MIN_SAVE_LEN, {"active0_move1_sealed"}, {"pri"}),
    InputFile(MIN_SAVE_LEN, {"active1_unknown4", "team_name_A"}, {"pri"}),
    InputFile(MIN_SAVE_LEN, {"stored0_level"}, {}),
    InputFile(MIN_SAVE_LEN, {"pri_checksum", "bak_stored0_level"}, {"bak"}),
    InputFile(MIN_SAVE_LEN, {"quick_payload"}, {}),
    InputFile(MIN_SAVE_LEN, {"quick_payload", "stored0_level"}, {"pri", "quick"}),
    InputFile(MIN_SAVE_LEN + 1, {"past_end", "team_name_A"}, {"pri"}) }

(* The files from_slice alone is run on: every choice of at most MaxEdits of
   LoadEdits and of the blocks whose checksum is then made right, and the
   all-zero files of the other lengths. *)
MaxEdits == 2

LoadEdits ==
  { "stored0_level", "team_name_A", "pri_checksum", "bak_stored0_level",
    "bak_checksum", "quick_payload", "quick_checksum" }

(* data with the byte at p raised by delta modulo 256. *)
Tamper(data, p, delta) ==
  CopyFromSlice(data, R(p, p + 1),
                << (ByteSlice(data, R(p, p + 1))[1] + delta) % 256 >>)

(* Files whose primary and backup checksums both match, and the single-byte
   changes made to their primary and backup payloads: the first byte, a byte
   of stored record 0 and the last byte of each payload. *)
TamperBases ==
  { InputFile(MIN_SAVE_LEN, {}, {}),
    InputFile(MIN_SAVE_LEN, {"stored0_level", "bak_stored0_level", "team_name_A"},
              {"pri", "bak", "quick"}) }
TamperDeltas == { 1, 255 }
PriTampers ==
  { [at |-> p, by |-> d] :
      p \in { PRIMARY_CHECKSUM.start, StoredBit(PRIMARY_SAVE.start, 0, 0) \div 8,
              PRIMARY_CHECKSUM.end - 1 },
      d \in TamperDeltas }
BakTampers ==
  { [at |-> p, by |-> d] :
      p \in { BACKUP_CHECKSUM.start, StoredBit(BACKUP_SAVE.start, 0, 0) \div 8,
              BACKUP_CHECKSUM.end - 1 },
      d \in TamperDeltas }
TamperedInputs ==
  { Tamper(base, t.at, t.by) : base \in TamperBases, t \in PriTampers }
  \cup { Tamper(Tamper(base, tu[1].at, tu[1].by), tu[2].at, tu[2].by) :
           base \in TamperBases, tu \in PriTampers \X BakTampers }

LoadInputs ==
  { InputFile(MIN_SAVE_LEN, es, fixed) :
      es \in { s \in SUBSET LoadEdits : Cardinality(s) <= MaxEdits },
      fixed \in SUBSET {"pri", "bak", "quick"} }
  \cup { InputFile(len, {}, {}) : len \in { 0, MIN_SAVE_LEN - 1, MIN_SAVE_LEN + 1 } }
  \cup { InputFile(MIN_SAVE_LEN - 1, {"pri_checksum", "bak_checksum"}, {}),
         InputFile(MIN_SAVE_LEN + 1, {"past_end"}, {}) }
  \cup TamperedInputs

(* ------------------------- the session --------------------------------- *)
VARIABLES
  extend,     \* what ArrayVec's collect does past its capacity, in this build
  input,      \* the bytes handed to from_slice
  pc,         \* "start", "loaded", "failed" (from_slice returned Err or panicked)
  result,     \* what the last call returned
  model,      \* the SkySave, once from_slice has returned Ok
  first,      \* the SkySave as the first from_slice returned it
  written,    \* field path -> the value last assigned to it since the load
  file,       \* the bytes of the last successful fs::write
  saves,      \* the number of save calls
  reloads,    \* the number of from_slice calls on a written file
  rec         \* a single record taken through its codec

vars == <<extend, input, pc, result, model, first, written, file, saves, reloads, rec>>

None == [none |-> TRUE]

(* The field assignments a caller makes between load and save. *)
Mutations ==
  { [view |-> "stored_pokemon", idx |-> 0, field |-> "level", value |-> 50],
    [view |-> "active_pokemon", idx |-> 1, field |-> "level", value |-> 7],
    [view |-> "general", idx |-> 0, field |-> "held_money", value |-> 1234] }

MaxMutations == 1
MaxSaves == 2

Path(m) == <<m.view, m.idx, m.field>>

InitWith(inputs) ==
  /\ extend \in {"panics", "stops"}
  /\ input \in inputs
  /\ pc = "start"
  /\ result = None
  /\ model = None
  /\ first = None
  /\ written = << >>
  /\ file = None
  /\ saves = 0
  /\ reloads = 0
  /\ rec = None

Init == InitWith(SessionInputs)

(* SkySave::from_slice(input) *)
Load ==
  /\ pc = "start"
  /\ result' = from_slice(input, extend)
  /\ pc' = IF result'.ok THEN "loaded" ELSE "failed"
  /\ model' = IF result'.ok THEN result'.value ELSE None
  /\ first' = model'
  /\ UNCHANGED <<extend, input, written, file, saves, reloads, rec>>

(* model.<view>[idx].<field> = value, or model.general.<field> = value *)
SetField(m) ==
  /\ pc = "loaded"
  /\ saves = 0
  /\ Cardinality(DOMAIN written) < MaxMutations
  /\ Path(m) \notin DOMAIN written
  /\ m.view # "general" => m.idx \in DOMAIN model[m.view]
  /\ model' = IF m.view = "general"
              THEN [model EXCEPT !.general[m.field] = m.value]
              ELSE [model EXCEPT ![m.view][m.idx][m.field] = m.value]
  /\ written' = (Path(m) :> m.value) @@ written
  /\ UNCHANGED <<extend, input, pc, result, first, file, saves, reloads, rec>>

(* model.save(path): the buffer is rewritten, then fs::write succeeds or fails. *)
Save(write_ok) ==
  /\ pc = "loaded"
  /\ saves < MaxSaves
  /\ reloads = 0
  /\ model' = SkySave_save(model)
  /\ file' = IF write_ok THEN model'.data ELSE file
  /\ result' = IF write_ok THEN Ok(<< >>) ELSE Err(Io)
  /\ saves' = saves + 1
  /\ UNCHANGED <<extend, input, pc, first, written, reloads, rec>>

(* SkySave::from_slice of the bytes save wrote. *)
Reload ==
  /\ pc = "loaded"
  /\ file # None
  /\ reloads = 0
  /\ result' = from_slice(file, extend)
  /\ pc' = IF result'.ok THEN "loaded" ELSE "failed"
  /\ model' = IF result'.ok THEN result'.value ELSE None
  /\ reloads' = reloads + 1
  /\ UNCHANGED <<extend, input, first, written, file, saves, rec>>

Next ==
  \/ Load
  \/ \E m \in Mutations : SetField(m)
  \/ \E write_ok \in BOOLEAN : Save(write_ok)
  \/ Reload

Spec == Init /\ [][Next]_vars

(* from_slice alone, on LoadInputs. *)
InitLoad == InitWith(LoadInputs)
NextLoad == Load
SpecLoad == InitLoad /\ [][NextLoad]_vars

(* ------------------------- one record through its codec ---------------- *)
(* The bits a record under test may have set: for a creature record flags,
   the ends of fields, the ends of the reserved ranges, and bits 4, 5 and 7
   of the first name byte; for a move record every bit. *)
RecordBits(kind) ==
  IF kind = "stored"
  THEN { 0, 1, 7, 34, 124, 125, 193, 198, 218, 282 + 4, 282 + 5, 282 + 7, 361 }
  ELSE IF kind = "active"
  THEN { 0, 1, 4, 27, 48, 69, 157, 157 + 4, 273, 377, 378, 451, 465, 466 + 4,
         466 + 5, 466 + 7, 545 }
  ELSE IF kind = "stored_move" THEN 0..(STORED_MOVE_BIT_LEN - 1)
  ELSE 0..(ACTIVE_MOVE_BIT_LEN - 1)

MaxRecordOnes == 2

(* The subsets of S of at most k elements. *)
RECURSIVE SubsetsUpTo(_, _)
SubsetsUpTo(S, k) ==
  IF k = 0 THEN { {} }
  ELSE LET smaller == SubsetsUpTo(S, k - 1)
       IN smaller \cup { p \cup {x} : p \in smaller, x \in S }

RecordLen(kind) ==
  IF kind = "stored" THEN STORED_PKM_BIT_LEN
  ELSE IF kind = "active" THEN ACTIVE_PKM_BIT_LEN
  ELSE IF kind = "stored_move" THEN STORED_MOVE_BIT_LEN
  ELSE ACTIVE_MOVE_BIT_LEN

InitRecord ==
  /\ extend = "stops"
  /\ input = None
  /\ pc = "record"
  /\ result = None
  /\ model = None
  /\ first = None
  /\ written = << >>
  /\ file = None
  /\ saves = 0
  /\ reloads = 0
  /\ \E kind \in {"stored", "active", "stored_move", "active_move"} :
       \E ones \in SubsetsUpTo(RecordBits(kind), MaxRecordOnes) :
         rec = [ kind |-> kind, step |-> "bits",
                 bits |-> [len |-> RecordLen(kind), ones |-> ones] ]

(* from_bitslice of the record's type *)
from_bitslice(kind, bits) ==
  IF kind = "stored" THEN StoredPokemon_from_bitslice(bits)
  ELSE IF kind = "active" THEN ActivePokemon_from_bitslice(bits)
  ELSE IF kind = "stored_move" THEN StoredMove_from_bitslice(bits)
  ELSE ActiveMove_from_bitslice(bits)

(* to_bits / to_bitvec of the record's type; a stored bit array is cut to the
   record's length as its callers cut it. *)
to_bits(kind, self) ==
  IF kind = "stored"
  THEN Slice(StoredPokemon_to_bits(self), R(0, STORED_PKM_BIT_LEN))
  ELSE IF kind = "active" THEN ActivePokemon_to_bitvec(self)
  ELSE IF kind = "stored_move"
  THEN Slice(StoredMove_to_bits(self), R(0, STORED_MOVE_BIT_LEN))
  ELSE ActiveMove_to_bitvec(self)

(* StoredPokemon / ActivePokemon / StoredMove / ActiveMove ::from_bitslice *)
Parse ==
  /\ pc = "record"
  /\ rec.step = "bits"
  /\ rec' = [ kind |-> rec.kind, step |-> "parsed", bits |-> rec.bits,
              parsed |-> from_bitslice(rec.kind, rec.bits) ]
  /\ UNCHANGED <<extend, input, pc, result, model, first, written, file, saves, reloads>>

(* StoredPokemon::to_bits()[0..362] / ActivePokemon::to_bitvec() /
   StoredMove::to_bits()[0..21] / ActiveMove::to_bitvec() *)
Serialize ==
  /\ pc = "record"
  /\ rec.step = "parsed"
  /\ rec' = [ kind |-> rec.kind, step |-> "serialized", bits |-> rec.bits,
              parsed |-> rec.parsed,
              out |-> to_bits(rec.kind, rec.parsed) ]
  /\ UNCHANGED <<extend, input, pc, result, model, first, written, file, saves, reloads>>

NextRecord == Parse \/ Serialize
SpecRecord == InitRecord /\ [][NextRecord]_vars

(* ------------------------- checksum on its own ------------------------- *)
(* The 32-bit words a buffer under test is made of, as little-endian bytes,
   and the bytes that may follow the last whole word of the range. *)
ChecksumWords ==
  { <<0, 0, 0, 0>>, <<1, 2, 3, 4>>, <<255, 255, 255, 255>>, <<0, 0, 0, 128>>,
    <<255, 0, 0, 0>> }
ChecksumTails == { << >>, <<255>>, <<255, 1>>, <<255, 1, 2>> }

MaxWords == 2

(* The sequences of at most n words. *)
RECURSIVE WordSeqs(_)
WordSeqs(n) ==
  IF n = 0 THEN { << >> }
  ELSE LET shorter == WordSeqs(n - 1)
       IN shorter \cup { Append(ws, w) : ws \in shorter, w \in ChecksumWords }

RECURSIVE Flatten(_)
Flatten(words) == IF words = << >> THEN << >> ELSE Head(words) \o Flatten(Tail(words))

(* The buffer checksum is called on: four bytes before the range, the words,
   the tail, and two bytes after the range. *)
ChecksumBuffer(words, tail) ==
  LET bytes == <<170, 187, 204, 221>> \o Flatten(words) \o tail \o <<238, 119>>
  IN [ len |-> Len(bytes), ones |-> ViewBits(bytes).ones ]

InitChecksum ==
  /\ extend = "stops"
  /\ input = None
  /\ pc = "checksum"
  /\ result = None
  /\ model = None
  /\ first = None
  /\ written = << >>
  /\ file = None
  /\ saves = 0
  /\ reloads = 0
  /\ \E words \in WordSeqs(MaxWords) :
       \E tail \in ChecksumTails :
         rec = [ step |-> "args", words |-> words, tail |-> tail,
                 data |-> ChecksumBuffer(words, tail),
                 range |-> R(4, 4 + 4 * Len(words) + Len(tail)) ]

(* checksum(data, range) *)
CallChecksum ==
  /\ pc = "checksum"
  /\ rec.step = "args"
  /\ rec' = [ step |-> "returned", words |-> rec.words, tail |-> rec.tail,
              data |-> rec.data, range |-> rec.range,
              out |-> checksum(rec.data, rec.range) ]
  /\ UNCHANGED <<extend, input, pc, result, model, first, written, file, saves, reloads>>

NextChecksum == CallChecksum
SpecChecksum == InitChecksum /\ [][NextChecksum]_vars

(* ------------------------- one byte through the text codec ------------- *)
InitChar ==
  /\ extend = "stops"
  /\ input = None
  /\ pc = "char"
  /\ result = None
  /\ model = None
  /\ first = None
  /\ written = << >>
  /\ file = None
  /\ saves = 0
  /\ reloads = 0
  /\ \E b \in 0..255 : rec = [ step |-> "byte", byte |-> b ]

(* byte_to_pmd_seq(byte) *)
Decode ==
  /\ pc = "char"
  /\ rec.step = "byte"
  /\ rec' = [ step |-> "decoded", byte |-> rec.byte, seq |-> byte_to_pmd_seq(rec.byte) ]
  /\ UNCHANGED <<extend, input, pc, result, model, first, written, file, saves, reloads>>

(* pmd_seq_to_byte of the display form, and PmdChar::from(byte) *)
Encode ==
  /\ pc = "char"
  /\ rec.step = "decoded"
  /\ rec.seq.ok
  /\ rec' = [ step |-> "encoded", byte |-> rec.byte, seq |-> rec.seq,
              back |-> pmd_seq_to_byte(rec.seq.value),
              char |-> PmdChar_from_u8(rec.byte) ]
  /\ UNCHANGED <<extend, input, pc, result, model, first, written, file, saves, reloads>>

NextChar == Decode \/ Encode
SpecChar == InitChar /\ [][NextChar]_vars

(* ------------------------- texts through the text codec ---------------- *)
(* impl From<&[u8]> for PmdString with the capacity check of ArrayVec::push:
   the push of an eleventh character panics. *)
PmdString_from_slice(value) ==
  IF Len(value) > 10 THEN Panic ELSE Ok(PmdString_from_bytes(value))

(* PmdString::to_sequence: the display form of every character, in order. *)
PmdString_to_sequence(s) ==
  Flatten([ i \in 1..Len(s) |-> byte_to_pmd_seq(s[i].pmd).value ])

(* to_string_until_nul with filter in place of map_while. *)
to_string_skipping_nul(s) ==
  LET kept == SelectSeq(s, LAMBDA c : c.pmd # 0)
  IN [ i \in 1..Len(kept) |-> kept[i].utf8 ]

(* PmdString::to_string_until_nul: map_while stops at the first character
   whose byte is zero. *)
to_string_until_nul(s) ==
  LET nul == { i \in 1..Len(s) : s[i].pmd = 0 }
      stop == IF nul = {} THEN Len(s) + 1
              ELSE CHOOSE i \in nul : \A j \in nul : i <= j
  IN [ i \in 1..(stop - 1) |-> s[i].utf8 ]

(* impl Display for PmdString: the utf8 char of every character. *)
PmdString_fmt(s) == [ i \in 1..Len(s) |-> s[i].utf8 ]

(* impl From<PmdString> for Vec<u8>: the pmd byte of every character. *)
Vec_from_PmdString(value) == [ i \in 1..Len(value) |-> value[i].pmd ]

(* chars_iter.by_ref().take_while(|&c| c != ']'): the index of the first ']'
   at or after i, which the iterator consumes, or one past the end. *)
take_while_end(value, i) ==
  LET closing == { j \in i..Len(value) : value[j] = 93 }
  IN IF closing = {} THEN Len(value) + 1
     ELSE CHOOSE j \in closing : \A k \in closing : j <= k

(* One arm's body with the capacity test before the lookup. *)
try_push_len_first(string, key, c) ==
  LET pmd == pmd_seq_to_byte(key) IN
  IF Len(string) >= 10 THEN Err(InvalidPmdStringLen)
  ELSE IF ~pmd.ok THEN pmd
  ELSE Ok(Append(string, [ pmd |-> pmd.value,
                           utf8 |-> IF c = 91 THEN pmd.value ELSE c ]))

(* One arm's body with room for an eleventh character. *)
try_push_cap_11(string, key, c) ==
  LET pmd == pmd_seq_to_byte(key) IN
  IF ~pmd.ok THEN pmd
  ELSE IF Len(string) >= 11 THEN Err(InvalidPmdStringLen)
  ELSE Ok(Append(string, [ pmd |-> pmd.value,
                           utf8 |-> IF c = 91 THEN pmd.value ELSE c ]))

(* The body of either arm of the match in try_from: pmd_seq_to_byte(..)?,
   then try_push, whose failure becomes InvalidPmdStringLen. *)
try_push(string, key, c) ==
  LET pmd == pmd_seq_to_byte(key) IN
  IF ~pmd.ok THEN pmd
  ELSE IF Len(string) >= 10 THEN Err(InvalidPmdStringLen)
  ELSE Ok(Append(string, [ pmd |-> pmd.value,
                           utf8 |-> IF c = 91 THEN pmd.value ELSE c ]))

(* The while-let loop of try_from from index i: '[' takes the text up to the
   next ']' (or to the end) and looks up "[" + text + "]"; any other char is
   looked up by itself. *)
RECURSIVE try_from_loop(_, _, _)
try_from_loop(value, i, string) ==
  IF i > Len(value) THEN Ok(string)
  ELSE LET c == value[i]
           close == IF c = 91 THEN take_while_end(value, i + 1) ELSE i
           key == IF c = 91
                  THEN <<91>> \o SubSeq(value, i + 1, close - 1) \o <<93>>
                  ELSE <<c>>
           pushed == try_push(string, key, c)
       IN IF ~pushed.ok THEN pushed
          ELSE try_from_loop(value, close + 1, pushed.value)

(* impl TryFrom<&str> for PmdString *)
PmdString_try_from(value) == try_from_loop(value, 1, << >>)

(* Byte slices handed to PmdString::from: whole 10-byte slots, shorter
   slices, and one of 11 bytes; then up to MaxSlotEdits bytes replaced. *)
SlotBases ==
  { [ i \in 1..10 |-> 0 ],
    <<65, 98, 99, 100, 0, 0, 0, 0, 0, 0>>,
    [ i \in 1..10 |-> 65 ],
    <<196, 136, 126>>,
    <<0, 0, 0, 196, 136, 126>>,
    << >>,
    [ i \in 1..11 |-> 65 ] }
SlotPositions == {1, 5, 10}
SlotBytes == {0, 91, 93, 144, 149, 160, 150, 255}
MaxSlotEdits == 1
SlotEdits == SubsetsUpTo(SlotPositions \X SlotBytes, MaxSlotEdits)
Overwrite(base, edits) ==
  [ i \in 1..Len(base) |->
      IF \E e \in edits : e[1] = i
      THEN (CHOOSE e \in edits : e[1] = i)[2]
      ELSE base[i] ]
SlotInputs == { Overwrite(base, edits) : base \in SlotBases, edits \in SlotEdits }

(* Texts handed to try_from: a run of "A", then up to MaxTailForms pieces:
   display forms, a lone "[", an unterminated "[END", the unmapped "[LOL]"
   and an unmapped character. *)
TextPieces ==
  { <<65>>, <<107>>, <<93>>, <<8226>>,
    <<91, 69, 78, 68, 93>>, <<91, 101, 93>>,
    <<91, 76, 79, 76, 93>>, <<20013>>,
    <<91>>, <<91, 69, 78, 68>> }
FillerCounts == {0, 8, 9, 10, 11}
MaxTailForms == 2
RECURSIVE PieceSeqs(_)
PieceSeqs(n) ==
  IF n = 0 THEN { << >> }
  ELSE LET shorter == PieceSeqs(n - 1)
       IN shorter \cup { Append(ps, p) : ps \in shorter, p \in TextPieces }
OakOakOakOak == [ i \in 1..12 |-> <<<<79>>, <<97>>, <<107>>>>[((i - 1) % 3) + 1] ]
TextInputs ==
  { [ i \in 1..n |-> <<65>> ] \o tail : n \in FillerCounts, tail \in PieceSeqs(MaxTailForms) }
    \cup { OakOakOakOak }

InitString ==
  /\ extend = "stops"
  /\ input = None
  /\ pc = "string"
  /\ result = None
  /\ model = None
  /\ first = None
  /\ written = << >>
  /\ file = None
  /\ saves = 0
  /\ reloads = 0
  /\ \/ \E x \in SlotInputs : rec = [ step |-> "slot", bytes |-> x ]
     \/ \E p \in TextInputs : rec = [ step |-> "text", pieces |-> p, text |-> Flatten(p) ]

(* PmdString::from(&bytes[..]) *)
FromSlice ==
  /\ pc = "string"
  /\ rec.step = "slot"
  /\ rec' = [ step |-> "decoded", bytes |-> rec.bytes,
              str |-> PmdString_from_slice(rec.bytes) ]
  /\ UNCHANGED <<extend, input, pc, result, model, first, written, file, saves, reloads>>

(* to_sequence, to_save_bytes, Vec::from, to_string and to_string_until_nul
   of the decoded string *)
Render ==
  /\ pc = "string"
  /\ rec.step = "decoded"
  /\ rec.str.ok
  /\ rec' = [ step |-> "rendered", bytes |-> rec.bytes, str |-> rec.str,
              seq |-> PmdString_to_sequence(rec.str.value),
              save_bytes |-> to_save_bytes(rec.str.value),
              vec |-> Vec_from_PmdString(rec.str.value),
              display |-> PmdString_fmt(rec.str.value),
              until_nul |-> to_string_until_nul(rec.str.value) ]
  /\ UNCHANGED <<extend, input, pc, result, model, first, written, file, saves, reloads>>

(* PmdString::try_from of the rendered sequence, and its to_save_bytes *)
Reparse ==
  /\ pc = "string"
  /\ rec.step = "rendered"
  /\ LET back == PmdString_try_from(rec.seq)
     IN rec' = [ step |-> "reparsed", bytes |-> rec.bytes, str |-> rec.str,
                 seq |-> rec.seq, back |-> back,
                 back_bytes |-> IF back.ok THEN to_save_bytes(back.value) ELSE None ]
  /\ UNCHANGED <<extend, input, pc, result, model, first, written, file, saves, reloads>>

(* PmdChar::from_sequence of every piece of the text *)
FromSequence ==
  /\ pc = "string"
  /\ rec.step = "text"
  /\ rec' = [ step |-> "chars", pieces |-> rec.pieces, text |-> rec.text,
              chars |-> [ i \in 1..Len(rec.pieces) |-> PmdChar_from_sequence(rec.pieces[i]) ] ]
  /\ UNCHANGED <<extend, input, pc, result, model, first, written, file, saves, reloads>>

(* PmdString::try_from(text) *)
TryFrom ==
  /\ pc = "string"
  /\ rec.step = "chars"
  /\ rec' = [ step |-> "parsed", pieces |-> rec.pieces, text |-> rec.text,
              chars |-> rec.chars, parsed |-> PmdString_try_from(rec.text) ]
  /\ UNCHANGED <<extend, input, pc, result, model, first, written, file, saves, reloads>>

(* to_sequence of the accepted text *)
ToSequence ==
  /\ pc = "string"
  /\ rec.step = "parsed"
  /\ rec.parsed.ok
  /\ rec' = [ step |-> "sequenced", pieces |-> rec.pieces, text |-> rec.text,
              chars |-> rec.chars, parsed |-> rec.parsed,
              seq |-> PmdString_to_sequence(rec.parsed.value) ]
  /\ UNCHANGED <<extend, input, pc, result, model, first, written, file, saves, reloads>>

NextString == FromSlice \/ Render \/ Reparse \/ FromSequence \/ TryFrom \/ ToSequence
SpecString == InitString /\ [][NextString]_vars

(* ------------------------- the money fields on their own --------------- *)
(* The three ranges of offsets/general.rs by field name. *)
MoneyRange ==
  [ held_money |-> HELD_MONEY_BITS,
    sp_episode_held_money |-> SP_EPISODE_HELD_MONEY_BITS,
    stored_money |-> STORED_MONEY_BITS ]
MoneyFields == DOMAIN MoneyRange

(* Bits of the block around and inside the three ranges, from bit 0 of the
   byte at 0x990C: the 6 bits below each range, both ends of each range and
   the bits above. *)
MoneyBits ==
  { 39180 * 8 + k : k \in {0, 5, 6, 29, 30, 31, 53, 54, 55, 77, 78, 101, 102} }
MaxMoneyOnes == 2

(* Values a caller assigns to a u32 money field. *)
MoneyValues == {0, 1, 16777215, 16777216, 16777221, 2147483647}

InitMoney ==
  /\ extend = "stops"
  /\ input = None
  /\ pc = "money"
  /\ result = None
  /\ model = None
  /\ first = None
  /\ written = << >>
  /\ file = None
  /\ saves = 0
  /\ reloads = 0
  /\ \E block \in {"Primary", "Backup"}, ones \in SubsetsUpTo(MoneyBits, MaxMoneyOnes) :
       LET data == [ len |-> MIN_SAVE_LEN,
                     ones |-> { k + 8 * BlockStart(block) : k \in ones } ]
       IN rec = [ step |-> "general", block |-> block, data |-> data,
                  general |-> General_load(data, block) ]

(* save.general.<field> = v *)
SetMoney(field, v) ==
  /\ pc = "money"
  /\ rec.step = "general"
  /\ rec' = [ step |-> "assigned", block |-> rec.block, data |-> rec.data,
              general |-> [ rec.general EXCEPT ![field] = v ],
              field |-> field, value |-> v ]
  /\ UNCHANGED <<extend, input, pc, result, model, first, written, file, saves, reloads>>

(* self.general.save(&mut self.data, self.active_save_block) *)
SaveGeneral ==
  /\ pc = "money"
  /\ rec.step = "assigned"
  /\ rec' = [ step |-> "saved", block |-> rec.block, before |-> rec.data,
              data |-> General_save(rec.general, rec.data, rec.block),
              general |-> rec.general, field |-> rec.field, value |-> rec.value ]
  /\ UNCHANGED <<extend, input, pc, result, model, first, written, file, saves, reloads>>

NextMoney ==
  \/ \E field \in MoneyFields, v \in MoneyValues : SetMoney(field, v)
  \/ SaveGeneral
SpecMoney == InitMoney /\ [][NextMoney]_vars

(* ------------------------- sky-save-gui: the open dialog --------------- *)
(* Files a dialog or a drop can name; SkySave::open succeeds on the first. *)
GuiPaths == { [path |-> "good.sav"], [path |-> "bad.sav"] }
MaxDialogs == 2
MaxDrops == 1

(* Message::SaveFileOpened { filepath }, tagged with the thread that sent it. *)
SaveFileOpened(from, filepath) == [ from |-> from, filepath |-> filepath ]

(* Sender::send on the unbounded mpsc channel. *)
Sender_send(channel, msg) == Append(channel, msg)

(* try_recv handing out the message sent last. *)
Receiver_try_recv_newest(channel) ==
  IF channel = << >> THEN Err("Empty")
  ELSE Ok([ msg |-> channel[Len(channel)],
            rest |-> SubSeq(channel, 1, Len(channel) - 1) ])

(* Receiver::try_recv: the oldest message, or Err(Empty) without blocking. *)
Receiver_try_recv(channel) ==
  IF channel = << >> THEN Err("Empty")
  ELSE Ok([ msg |-> Head(channel), rest |-> Tail(channel) ])

(* SkySaveGui::open_save(path) called by `thread`, msg being the message
   the path came in, if any: SkySave::open(&path); Ok stores the save and
   the path, Err only prints. *)
open_save(gui, path, thread, msg) ==
  [ gui EXCEPT
      !.opened = Append(@, [ filepath |-> path, thread |-> thread, msg |-> msg ]),
      !.save = IF path.path = "good.sav" THEN path ELSE @ ]

(* SkySaveGui::open_dialog: a thread is spawned that blocks in pick_file. *)
open_dialog(gui) ==
  [ gui EXCEPT !.dialogs = Append(@, [ state |-> "picking", picked |-> None ]) ]

InitGui ==
  /\ extend = "stops"
  /\ input = None
  /\ pc = "gui"
  /\ result = None
  /\ model = None
  /\ first = None
  /\ written = << >>
  /\ file = None
  /\ saves = 0
  /\ reloads = 0
  /\ rec = [ dialogs |-> << >>, channel |-> << >>, sent |-> << >>,
             opened |-> << >>, save |-> None, drops |-> 0 ]

(* One call of App::update on the UI thread: the File > Open button, a
   dropped file, one try_recv, and the "Open Save File" button that is
   shown while no save is loaded. *)
Update(menu_open, dropped, button) ==
  /\ pc = "gui"
  /\ ~(menu_open /\ button)
  /\ (menu_open \/ button) => Len(rec.dialogs) < MaxDialogs
  /\ dropped # None => rec.drops < MaxDrops
  /\ LET g1 == IF menu_open THEN open_dialog(rec) ELSE rec
         g2 == IF dropped # None
               THEN [ open_save(g1, dropped, "ui", None) EXCEPT !.drops = @ + 1 ]
               ELSE g1
         got == Receiver_try_recv(g2.channel)
         g3 == IF got.ok
               THEN [ open_save(g2, got.value.msg.filepath, "ui", got.value.msg)
                        EXCEPT !.channel = got.value.rest ]
               ELSE g2
     IN /\ button => g3.save = None
        /\ rec' = IF button THEN open_dialog(g3) ELSE g3
  /\ UNCHANGED <<extend, input, pc, result, model, first, written, file, saves, reloads>>

(* The closure of dialog thread i: pick_file returns a path or None, and a
   path is sent as one message. *)
Pick(i, path) ==
  /\ pc = "gui"
  /\ i \in DOMAIN rec.dialogs
  /\ rec.dialogs[i].state = "picking"
  /\ rec' = IF path = None
            THEN [ rec EXCEPT !.dialogs[i] = [ state |-> "finished", picked |-> None ] ]
            ELSE [ rec EXCEPT
                     !.dialogs[i] = [ state |-> "finished", picked |-> path ],
                     !.channel = Sender_send(@, SaveFileOpened(i, path)),
                     !.sent = Append(@, SaveFileOpened(i, path)) ]
  /\ UNCHANGED <<extend, input, pc, result, model, first, written, file, saves, reloads>>

UpdateCalled ==
  \E menu_open \in BOOLEAN, dropped \in GuiPaths \cup {None}, button \in BOOLEAN :
    Update(menu_open, dropped, button)

NextGui ==
  \/ UpdateCalled
  \/ \E i \in 1..MaxDialogs, path \in GuiPaths \cup {None} : Pick(i, path)

(* update keeps being called. *)
SpecGui == InitGui /\ [][NextGui]_vars /\ WF_vars(UpdateCalled)

(* ------------------------- properties ---------------------------------- *)
(* The 1 bits of the byte range r of data, as positions from r.start. *)
RangeBits(data, r) ==
  { k - 8 * r.start : k \in { j \in data.ones : 8 * r.start <= j /\ j < 8 * r.end } }

(* The checksum a block stores in its first four bytes, the checksum of the
   rest of it, and whether they agree. *)
StoredChecksum(data, block) == ByteSlice(data, R(block.start, block.start + 4))
ComputedChecksum(data, block) == checksum(data, R(block.start + 4, block.end)).bytes
BlockMatches(data, block) == StoredChecksum(data, block) = ComputedChecksum(data, block)

(* The file as it reads from byte `start` on. *)
Rebased(data, start) ==
  [ len |-> data.len - start,
    ones |-> { k - 8 * start : k \in { j \in data.ones : j >= 8 * start } } ]

(* Stored record i and active record i of the block starting at byte `start`,
   parsed from the bits of data. *)
StoredRecordAt(data, start, i) ==
  StoredPokemon_from_bitslice(
    Slice(view_bits(data), R(StoredBit(start, i, 0), StoredBit(start, i + 1, 0))))
ActiveRecordAt(data, start, i) ==
  ActivePokemon_from_bitslice(
    Slice(view_bits(data), R(ActiveBit(start, i, 0), ActiveBit(start, i + 1, 0))))

(* The field a path names, read from the block of data starting at `start`. *)
ReadField(data, start, path) ==
  IF path[1] = "general"
  THEN General_load(Rebased(data, start), "Primary")[path[3]]
  ELSE IF path[1] = "stored_pokemon"
  THEN StoredRecordAt(data, start, path[2])[path[3]]
  ELSE ActiveRecordAt(data, start, path[2])[path[3]]

(* The three typed views of a model, and those of m after the assignments
   recorded in `written`. *)
Views(m) ==
  [ general |-> m.general, stored_pokemon |-> m.stored_pokemon,
    active_pokemon |-> m.active_pokemon ]
Assigned(m) ==
  [ general |->
      [ f \in DOMAIN m.general |->
          IF <<"general", 0, f>> \in DOMAIN written
          THEN written[<<"general", 0, f>>] ELSE m.general[f] ],
    stored_pokemon |->
      [ i \in DOMAIN m.stored_pokemon |->
          [ f \in DOMAIN m.stored_pokemon[i] |->
              IF <<"stored_pokemon", i, f>> \in DOMAIN written
              THEN written[<<"stored_pokemon", i, f>>] ELSE m.stored_pokemon[i][f] ] ],
    active_pokemon |->
      [ i \in DOMAIN m.active_pokemon |->
          [ f \in DOMAIN m.active_pokemon[i] |->
              IF <<"active_pokemon", i, f>> \in DOMAIN written
              THEN written[<<"active_pokemon", i, f>>] ELSE m.active_pokemon[i][f] ] ] ]

OtherBlockStart(active_save_block) ==
  IF active_save_block = "Primary" THEN BACKUP_SAVE.start ELSE PRIMARY_SAVE.start

(* C1: a file that from_slice accepts with the primary block active, saved
   with no field assigned in between, keeps every byte of [0x4, 0xB65C). *)
C1_PayloadRoundTrip ==
  (pc = "loaded" /\ saves >= 1 /\ written = << >>
     /\ first.active_save_block = "Primary")
    => RangeBits(model.data, PRIMARY_CHECKSUM) = RangeBits(input, PRIMARY_CHECKSUM)

(* C2: a record of 362 bits (stored) or 546 bits (active), parsed and then
   serialised, is the record it was, name field included. *)
C2_RecordRoundTrip ==
  (pc = "record" /\ rec.step = "serialized" /\ rec.kind \in {"stored", "active"})
    => rec.out = rec.bits

(* C3: after load, field assignments, save and a load of the written file,
   every assigned field reads the value assigned and every other field of the
   three views reads what it read after the first load. *)
C3_MutationReadBack ==
  (pc = "loaded" /\ reloads = 1) => Views(model) = Assigned(first)

(* C4: a model that from_slice returned holds exactly 720 stored records and
   exactly 4 active records. *)
C4_RecordCounts ==
  pc = "loaded" =>
    /\ Cardinality(DOMAIN model.stored_pokemon) = STORED_PKM_COUNT
    /\ Cardinality(DOMAIN model.active_pokemon) = ACTIVE_PKM_COUNT

(* C5: from_slice answers InvalidSize exactly when the input is shorter than
   131072 bytes, whatever the checksum slots hold. *)
C5_InvalidSizeIff ==
  (pc # "start" /\ reloads = 0) =>
    ((result = Err(InvalidSize)) <=> (input.len < MIN_SAVE_LEN))

C5_Witness ==
  /\ pc = "failed"
  /\ result = Err(InvalidSize)
  /\ input.len = MIN_SAVE_LEN - 1
  /\ ~BlockMatches(input, PRIMARY_SAVE)

(* C6: from_slice answers InvalidChecksum exactly when the input is long
   enough and both the primary and the backup stored checksum differ from the
   computed one, and the error then carries the stored and the computed
   checksum of both blocks. *)
C6_InvalidChecksumIff ==
  (pc # "start" /\ reloads = 0) =>
    LET rejected == ~result.ok /\ result.error.kind = "InvalidChecksum"
    IN /\ rejected <=> /\ input.len >= MIN_SAVE_LEN
                       /\ ~BlockMatches(input, PRIMARY_SAVE)
                       /\ ~BlockMatches(input, BACKUP_SAVE)
       /\ rejected =>
            result.error = InvalidChecksum(StoredChecksum(input, PRIMARY_SAVE),
                                           ComputedChecksum(input, PRIMARY_SAVE),
                                           StoredChecksum(input, BACKUP_SAVE),
                                           ComputedChecksum(input, BACKUP_SAVE))

C6_Witness ==
  /\ pc = "failed"
  /\ result.error.kind = "InvalidChecksum"
  /\ result.error.pri_expected # result.error.pri_found
  /\ result.error.bak_expected # result.error.bak_found
  /\ result.error.pri_found # result.error.bak_found

(* C7: a loaded model has the primary block active exactly when the primary
   checksum matches, the backup block only when the primary does not match
   and the backup does, and its general fields and records are the ones that
   lie at the fields' offsets from the start of the active block. *)
C7_ActiveBlock ==
  (pc = "loaded" /\ reloads = 0 /\ saves = 0 /\ written = << >>) =>
    LET start == IF model.active_save_block = "Primary"
                 THEN PRIMARY_SAVE.start ELSE BACKUP_SAVE.start
    IN /\ model.active_save_block \in {"Primary", "Backup"}
       /\ (model.active_save_block = "Primary") <=> BlockMatches(input, PRIMARY_SAVE)
       /\ (model.active_save_block = "Backup") =>
            (~BlockMatches(input, PRIMARY_SAVE) /\ BlockMatches(input, BACKUP_SAVE))
       /\ model.general = General_load(Rebased(input, start), "Primary")
       /\ \A i \in DOMAIN model.stored_pokemon :
            model.stored_pokemon[i] = StoredRecordAt(Rebased(input, start), 0, i)
       /\ \A i \in DOMAIN model.active_pokemon :
            model.active_pokemon[i] = ActiveRecordAt(Rebased(input, start), 0, i)

C7_Witness ==
  /\ pc = "loaded"
  /\ model.active_save_block = "Backup"
  /\ model.stored_pokemon[0].level = 2
  /\ StoredRecordAt(input, PRIMARY_SAVE.start, 0).level = 0

(* C8: an input of full length whose primary or backup checksum matches is
   loaded whatever its quicksave block holds, and quicksave_valid is whether
   the stored quicksave checksum equals the one computed over
   [0x19004, 0x1E800). *)
C8_QuicksaveNeverGates ==
  (pc # "start" /\ reloads = 0 /\ saves = 0 /\ written = << >>
     /\ input.len >= MIN_SAVE_LEN
     /\ (BlockMatches(input, PRIMARY_SAVE) \/ BlockMatches(input, BACKUP_SAVE)))
    => /\ result.ok
       /\ result.value.quicksave_valid = BlockMatches(input, QUICKSAVE)

(* C9: after save the byte range of the block that was not active equals the
   byte range of the active block, and it holds the values assigned before
   the save. *)
C9_MirrorAfterSave ==
  (pc = "loaded" /\ saves >= 1) =>
    /\ RangeBits(model.data, PRIMARY_SAVE) = RangeBits(model.data, BACKUP_SAVE)
    /\ \A path \in DOMAIN written :
         ReadField(model.data, OtherBlockStart(first.active_save_block), path)
           = written[path]

C9_Witness ==
  /\ pc = "loaded"
  /\ saves = 1
  /\ reloads = 0
  /\ first.active_save_block = "Backup"
  /\ <<"stored_pokemon", 0, "level">> \in DOMAIN written
  /\ StoredRecordAt(input, PRIMARY_SAVE.start, 0).level # 50
  /\ StoredRecordAt(model.data, PRIMARY_SAVE.start, 0).level = 50

(* C10: after save the first four bytes of every block are the checksum of
   the rest of the block, and the written file loads again with the primary
   block active, also when the backup block was active before the save. *)
C10_ChecksumsAfterSave ==
  /\ (pc = "loaded" /\ saves >= 1) =>
       \A block \in {PRIMARY_SAVE, BACKUP_SAVE, QUICKSAVE} :
         BlockMatches(model.data, block)
  /\ reloads >= 1 =>
       (pc = "loaded" /\ result.ok /\ model.active_save_block = "Primary")

C10_Witness ==
  /\ reloads = 1
  /\ pc = "loaded"
  /\ first.active_save_block = "Backup"
  /\ model.active_save_block = "Primary"
  /\ written # << >>
  /\ StoredChecksum(file, PRIMARY_SAVE) # StoredChecksum(input, PRIMARY_SAVE)

(* C11: between a load and the next load of a written file, whatever fields
   are assigned and whatever saves succeed or fail, active_save_block keeps
   the value from_slice chose, also once a save has copied an active backup
   block over the primary one. *)
C11_SelectorKept ==
  (pc = "loaded" /\ reloads = 0) =>
    model.active_save_block = first.active_save_block

C11_Witness ==
  /\ pc = "loaded"
  /\ reloads = 0
  /\ saves >= 1
  /\ model.active_save_block = "Backup"
  /\ BlockMatches(model.data, PRIMARY_SAVE)
  /\ ~BlockMatches(input, PRIMARY_SAVE)

(* C12: when the write of a save fails, the model is what it was when save
   was called: the same byte buffer (the bytes loaded, since field
   assignments do not touch the buffer), selector, quicksave flag and views. *)
C12_FailedSaveKeepsModel ==
  (pc = "loaded" /\ saves = 1 /\ result = Err(Io)) =>
    /\ model.data = input
    /\ model.active_save_block = first.active_save_block
    /\ model.quicksave_valid = first.quicksave_valid
    /\ Views(model) = Assigned(first)

(* C13: after a save whose write succeeded, the model's buffer is the bytes
   written, and from_slice of that buffer returns general fields, stored
   records and active records equal to the model's views. *)
C13_SavedBufferParsesToViews ==
  (pc = "loaded" /\ saves >= 1 /\ reloads = 0 /\ result = Ok(<< >>)) =>
    /\ model.data = file
    /\ LET parsed == from_slice(model.data, extend)
       IN parsed.ok /\ Views(parsed.value) = Views(model)

(* The bits of data in bytes that lie in neither the primary block, nor the
   backup block, nor the quicksave checksum slot. *)
OutsideSavedRanges(data) ==
  { k \in data.ones :
      LET byte == k \div 8
      IN /\ ~(PRIMARY_SAVE.start <= byte /\ byte < PRIMARY_SAVE.end)
         /\ ~(BACKUP_SAVE.start <= byte /\ byte < BACKUP_SAVE.end)
         /\ ~(QUICKSAVE_READ_CHECKSUM.start <= byte /\ byte < QUICKSAVE_READ_CHECKSUM.end) }

(* C14: save changes no byte outside the primary block, the backup block and
   the quicksave checksum slot: the quicksave payload, the bytes between and
   after the blocks (also past 0x20000) and the length of the buffer are
   those of the file loaded. *)
C14_SaveFrame ==
  (pc = "loaded" /\ saves >= 1) =>
    /\ model.data.len = input.len
    /\ OutsideSavedRanges(model.data) = OutsideSavedRanges(input)
    /\ RangeBits(model.data, QUICKSAVE_CHECKSUM) = RangeBits(input, QUICKSAVE_CHECKSUM)

C14_Witness ==
  /\ pc = "loaded"
  /\ saves = 1
  /\ RangeBits(input, QUICKSAVE_CHECKSUM) # {}
  /\ StoredChecksum(model.data, QUICKSAVE) # StoredChecksum(input, QUICKSAVE)
  /\ RangeBits(model.data, QUICKSAVE_CHECKSUM) = RangeBits(input, QUICKSAVE_CHECKSUM)

(* The reserved bits of a creature record. *)
ReservedBits(kind) ==
  IF kind = "stored" THEN { 34 }
  ELSE IF kind = "active"
  THEN (1..4) \cup { 27 } \cup (48..69) \cup (273..377) \cup (451..465)
  ELSE {}

(* C15: bit 34 of a stored record, and bits 1-4, 27, 48-69, 273-377 and
   451-465 of an active record, have in the record serialised from the parsed
   record the value they had in the record parsed, whatever other bits are
   set. *)
C15_ReservedBitsKept ==
  (pc = "record" /\ rec.step = "serialized") =>
    rec.out.ones \cap ReservedBits(rec.kind) = rec.bits.ones \cap ReservedBits(rec.kind)

C15_Witness ==
  /\ pc = "record"
  /\ rec.step = "serialized"
  /\ rec.kind = "active"
  /\ 377 \in rec.bits.ones
  /\ 377 \in rec.out.ones
  /\ rec.out # rec.bits

(* C16: a stored move of 21 bits and an active move of 29 bits, parsed and
   then serialised, is the move it was. *)
C16_MoveRoundTrip ==
  (pc = "record" /\ rec.step = "serialized"
     /\ rec.kind \in {"stored_move", "active_move"})
    => rec.out = rec.bits

(* The sum of the words modulo 2^32 as four little-endian bytes, added up
   column by column. *)
RECURSIVE ColumnTotal(_, _)
ColumnTotal(words, i) ==
  IF words = << >> THEN 0 ELSE Head(words)[i] + ColumnTotal(Tail(words), i)
WordSumMod32(words) ==
  LET c1 == ColumnTotal(words, 1)
      c2 == ColumnTotal(words, 2) + c1 \div 256
      c3 == ColumnTotal(words, 3) + c2 \div 256
      c4 == ColumnTotal(words, 4) + c3 \div 256
  IN << c1 % 256, c2 % 256, c3 % 256, c4 % 256 >>

(* C17: on a range of whole 32-bit words checksum returns the little-endian
   bytes of their sum modulo 2^32: 00 00 00 00 for zero words, 01 02 03 04
   for the one word 01 02 03 04.  The three catalogued ranges are whole
   numbers of at most 2^16 words, whose sum is below 2^48 and so cannot
   overflow the 64-bit accumulator. *)
C17_ChecksumIsWordSum ==
  (pc = "checksum" /\ rec.step = "returned" /\ rec.tail = << >>) =>
    /\ ~rec.out.panic
    /\ rec.out.bytes = WordSumMod32(rec.words)
    /\ (\A i \in 1..Len(rec.words) : rec.words[i] = <<0, 0, 0, 0>>)
         => rec.out.bytes = <<0, 0, 0, 0>>
    /\ rec.words = << <<1, 2, 3, 4>> >> => rec.out.bytes = <<1, 2, 3, 4>>
    /\ \A r \in {PRIMARY_CHECKSUM, BACKUP_CHECKSUM, QUICKSAVE_CHECKSUM} :
         /\ (r.end - r.start) % 4 = 0
         /\ (r.end - r.start) \div 4 <= 65536

C17_Witness ==
  /\ pc = "checksum"
  /\ rec.step = "returned"
  /\ rec.words = << <<255, 255, 255, 255>>, <<1, 2, 3, 4>> >>
  /\ rec.tail = << >>
  /\ rec.out.bytes = <<0, 2, 3, 4>>

(* C18: on a range that ends 1 to 3 bytes after its last whole word checksum
   returns the checksum of the whole words. *)
C18_TrailingBytesIgnored ==
  (pc = "checksum" /\ rec.step = "returned" /\ rec.tail # << >>) =>
    /\ ~rec.out.panic
    /\ rec.out.bytes = WordSumMod32(rec.words)

(* C19: a file whose primary and backup checksums match, with one byte of the
   primary payload changed and the stored checksum left alone, loads with
   the backup block active; with one byte of the backup payload changed as
   well, from_slice answers InvalidChecksum. *)
C19_TamperDetected ==
  (pc # "start" /\ reloads = 0) =>
    \A base \in TamperBases : \A t \in PriTampers :
      (BlockMatches(base, PRIMARY_SAVE) /\ BlockMatches(base, BACKUP_SAVE)) =>
        /\ input = Tamper(base, t.at, t.by) =>
             (result.ok /\ result.value.active_save_block = "Backup")
        /\ \A u \in BakTampers :
             input = Tamper(Tamper(base, t.at, t.by), u.at, u.by) =>
               (~result.ok /\ result.error.kind = "InvalidChecksum")

C19_Witness ==
  /\ pc = "loaded"
  /\ reloads = 0
  /\ \E base \in TamperBases : \E t \in PriTampers :
       /\ BlockMatches(base, PRIMARY_SAVE)
       /\ BlockMatches(base, BACKUP_SAVE)
       /\ base.ones # {}
       /\ input = Tamper(base, t.at, t.by)
  /\ model.active_save_block = "Backup"

(* The byte the claim gives for the display form of b: 0x9D for 0x90 and
   0x95, 0x20 for 0xA0, b itself otherwise. *)
DocumentedByte(b) ==
  IF b \in { 144, 149 } THEN 157 ELSE IF b = 160 THEN 32 ELSE b

(* C20: byte_to_pmd_seq succeeds on every byte; pmd_seq_to_byte of the
   display form of b is b, except that it is 0x9D for 0x90 and 0x95 and 0x20
   for 0xA0; and PmdChar::from(b).pmd is b exactly for the other bytes. *)
C20_CharRoundTrip ==
  (pc = "char" /\ rec.step # "byte") =>
    /\ rec.seq.ok
    /\ rec.step = "encoded" =>
         /\ rec.back = Ok(DocumentedByte(rec.byte))
         /\ rec.char.pmd = DocumentedByte(rec.byte)
         /\ (rec.char.pmd = rec.byte) <=> (rec.byte \notin { 144, 149, 160 })

C20_Witness ==
  /\ pc = "char"
  /\ rec.step = "encoded"
  /\ rec.byte = 144
  /\ rec.back = Ok(157)
  /\ rec.char.pmd = 157

(* C21: every 10-byte slot comes back unchanged from decoding, to_sequence,
   PmdString::try_from and to_save_bytes. *)
C21_SlotRoundTrip ==
  (pc = "string" /\ rec.step = "reparsed" /\ Len(rec.bytes) = 10)
    => (rec.back.ok /\ rec.back_bytes = rec.bytes)

(* A piece that is a key of the reverse table. *)
Mapped(piece) == \E arm \in pmd_seq_to_byte_arms : arm[1] = piece

(* C22: a text of n mapped display forms parses to exactly n characters when
   n <= 10 and fails with InvalidPmdStringLen when n > 10; no PmdString
   holds more than 10 characters. *)
C22_LengthLimit ==
  pc = "string" =>
    /\ (rec.step \in {"parsed", "sequenced"}
          /\ \A i \in 1..Len(rec.pieces) : Mapped(rec.pieces[i]))
         => IF Len(rec.pieces) <= 10
            THEN rec.parsed.ok /\ Len(rec.parsed.value) = Len(rec.pieces)
            ELSE rec.parsed = Err(InvalidPmdStringLen)
    /\ (rec.step \in {"parsed", "sequenced"} /\ rec.parsed.ok)
         => Len(rec.parsed.value) <= 10
    /\ (rec.step \in {"decoded", "rendered", "reparsed"} /\ rec.str.ok)
         => Len(rec.str.value) <= 10
    /\ (rec.step = "reparsed" /\ rec.back.ok) => Len(rec.back.value) <= 10

C22_Witness ==
  /\ pc = "string"
  /\ rec.step = "parsed"
  /\ rec.pieces = OakOakOakOak
  /\ rec.parsed = Err(InvalidPmdStringLen)

(* C23: a piece that is not a key of the reverse table makes
   PmdChar::from_sequence fail with InvalidPmdCharacter carrying the piece,
   and makes PmdString::try_from fail with the same error when it is the
   first such piece and at most ten mapped pieces come before it. *)
C23_UnmappedFormRejected ==
  pc = "string" =>
    /\ rec.step \in {"chars", "parsed", "sequenced"}
         => \A i \in 1..Len(rec.pieces) :
              ~Mapped(rec.pieces[i])
                => rec.chars[i] = Err(InvalidPmdCharacter(rec.pieces[i]))
    /\ rec.step \in {"parsed", "sequenced"}
         => \A k \in 1..Len(rec.pieces) :
              ( /\ k <= 11
                /\ ~Mapped(rec.pieces[k])
                /\ \A j \in 1..(k - 1) : Mapped(rec.pieces[j]) )
                => rec.parsed = Err(InvalidPmdCharacter(rec.pieces[k]))

(* PmdChar::from_sequence("[LOL]") has failed with InvalidPmdCharacter("[LOL]"). *)
C23_Witness ==
  /\ pc = "string"
  /\ rec.step = "chars"
  /\ rec.pieces = << <<91, 76, 79, 76, 93>> >>
  /\ rec.chars[1] = Err(InvalidPmdCharacter(<<91, 76, 79, 76, 93>>))

(* C24: for a PmdString of k <= 10 characters to_save_bytes is the k bytes
   in order followed by 10 - k zeros, 10 bytes in all, and the conversion
   to Vec<u8> is exactly the k bytes, zero bytes kept, nothing appended. *)
C24_PaddedAndUnpadded ==
  (pc = "string" /\ rec.step = "rendered") =>
    LET k == Len(rec.bytes) IN
    /\ Len(rec.str.value) = k
    /\ Len(rec.save_bytes) = 10
    /\ \A i \in 1..10 :
         rec.save_bytes[i] = IF i <= k THEN DocumentedByte(rec.bytes[i]) ELSE 0
    /\ Len(rec.vec) = k
    /\ \A i \in 1..k : rec.vec[i] = DocumentedByte(rec.bytes[i])

(* A string of six characters, three of them zero bytes, has been rendered. *)
C24_Witness ==
  /\ pc = "string"
  /\ rec.step = "rendered"
  /\ rec.bytes = <<0, 0, 0, 196, 136, 126>>
  /\ rec.save_bytes = <<0, 0, 0, 196, 136, 126, 0, 0, 0, 0>>
  /\ rec.vec = <<0, 0, 0, 196, 136, 126>>

(* The char shown for byte b: the byte itself as a char when its display
   form is a bracketed escape, the form's single character otherwise. *)
DisplayChar(b) ==
  LET form == byte_to_pmd_seq_arms[b + 1]
  IN IF form[1] = 91 THEN DocumentedByte(b) ELSE form[1]

(* C25: to_string_until_nul is the display characters of the bytes before
   the first zero byte and nothing more, while Display gives one char and
   to_sequence one display form for every byte, zero bytes included. *)
C25_UntilNul ==
  (pc = "string" /\ rec.step = "rendered") =>
    LET k == Len(rec.bytes)
        zeros == { i \in 1..k : rec.bytes[i] = 0 }
        z == IF zeros = {} THEN k + 1 ELSE CHOOSE i \in zeros : \A j \in zeros : i <= j
    IN /\ Len(rec.until_nul) = z - 1
       /\ \A i \in 1..(z - 1) : rec.until_nul[i] = DisplayChar(rec.bytes[i])
       /\ Len(rec.display) = k
       /\ \A i \in 1..k : rec.display[i] = DisplayChar(rec.bytes[i])
       /\ rec.seq = Flatten([ i \in 1..k |-> byte_to_pmd_seq_arms[rec.bytes[i] + 1] ])
       /\ Len(rec.str.value) = k

(* 41 62 63 64 and six zeros: "Abcd" until the zero, and
   "Abcd[END][END][END][END][END][END]" as sequence. *)
C25_Witness ==
  /\ pc = "string"
  /\ rec.step = "rendered"
  /\ rec.bytes = <<65, 98, 99, 100, 0, 0, 0, 0, 0, 0>>
  /\ rec.until_nul = <<65, 98, 99, 100>>
  /\ rec.seq = <<65, 98, 99, 100>> \o Flatten([ i \in 1..6 |-> <<91, 69, 78, 68, 93>> ])
  /\ Len(rec.display) = 10

(* C28: whenever PmdString::try_from accepts a text, to_sequence of the
   result is that text. *)
C28_AcceptedTextRoundTrip ==
  (pc = "string" /\ rec.step = "sequenced") => rec.seq = rec.text

(* An accepted text of closed pieces has come back from to_sequence. *)
C28_Witness ==
  /\ pc = "string"
  /\ rec.step = "sequenced"
  /\ rec.pieces = << <<65>>, <<91, 69, 78, 68, 93>> >>
  /\ rec.seq = rec.text

(* A piece that is one scanned form: a single char other than '[', or a
   bracketed escape closed by its ']'. *)
Delimited(piece) ==
  \/ Len(piece) = 1 /\ piece[1] # 91
  \/ /\ Len(piece) >= 2
     /\ piece[1] = 91
     /\ piece[Len(piece)] = 93
     /\ \A i \in 2..(Len(piece) - 1) : piece[i] \notin {91, 93}

(* C29: scanning the forms of a text left to right, position k fails with
   InvalidPmdCharacter if its form is unmapped, otherwise with
   InvalidPmdStringLen if k > 10; try_from returns the error of the first
   failing position, and Ok when no position fails. *)
C29_EarliestError ==
  ( /\ pc = "string"
    /\ rec.step \in {"parsed", "sequenced"}
    /\ \A i \in 1..Len(rec.pieces) : Delimited(rec.pieces[i]) )
  => LET failing == { k \in 1..Len(rec.pieces) : ~Mapped(rec.pieces[k]) \/ k > 10 }
     IN IF failing = {} THEN rec.parsed.ok
        ELSE LET k == CHOOSE i \in failing : \A j \in failing : i <= j
             IN rec.parsed = IF ~Mapped(rec.pieces[k])
                             THEN Err(InvalidPmdCharacter(rec.pieces[k]))
                             ELSE Err(InvalidPmdStringLen)

(* Ten mapped forms and an unmapped one at position 11: the character error. *)
C29_Witness ==
  /\ pc = "string"
  /\ rec.step = "parsed"
  /\ rec.pieces = [ i \in 1..10 |-> <<65>> ] \o << <<20013>> >>
  /\ rec.parsed = Err(InvalidPmdCharacter(<<20013>>))

(* C27: after a money field is set to v and the general data is saved, the
   field's 24 bits hold v mod 2^24 and every bit of the buffer outside that
   range is as it was: the 6 bits below, the bits above and the other two
   money fields. *)
C27_MoneyFrame ==
  (pc = "money" /\ rec.step = "saved") =>
    LET r == R(MoneyRange[rec.field].start + 8 * BlockStart(rec.block),
               MoneyRange[rec.field].end + 8 * BlockStart(rec.block))
        inside(S) == { k \in S : r.start <= k /\ k < r.end }
    IN /\ LoadLe(Slice(view_bits(rec.data), r)) = rec.value % 16777216
       /\ rec.data.ones \ inside(rec.data.ones) = rec.before.ones \ inside(rec.before.ones)
       /\ rec.data.len = rec.before.len
       /\ \A f \in MoneyFields \ {rec.field} :
            load_save_bits(view_bits(rec.data), rec.block, MoneyRange[f])
              = load_save_bits(view_bits(rec.before), rec.block, MoneyRange[f])

(* Held money 2^24 + 5 has been saved over a buffer whose bit just below
   the range and first bit of the next field were 1. *)
C27_Witness ==
  /\ pc = "money"
  /\ rec.step = "saved"
  /\ rec.field = "held_money"
  /\ rec.value = 16777221
  /\ rec.before.ones = { 8 * (BlockStart(rec.block) + 39180) + 5,
                         8 * (BlockStart(rec.block) + 39180) + 30 }
  /\ LoadLe(load_save_bits(view_bits(rec.data), rec.block, HELD_MONEY_BITS)) = 5

(* C30: a save that follows a save, with no assignment in between, leaves
   the buffer as the first save left it and hands the same bytes to the
   write, whichever block is active. *)
C30_SaveIdempotent ==
  [][ (pc = "loaded" /\ saves >= 1 /\ saves' = saves + 1)
        => /\ model'.data = model.data
           /\ model'.active_save_block = model.active_save_block
           /\ (file # None /\ result'.ok) => file' = file ]_vars

(* Two saves have been made after an assignment, from the backup block. *)
C30_Witness ==
  /\ pc = "loaded"
  /\ saves = 2
  /\ reloads = 0
  /\ written # << >>
  /\ model.active_save_block = "Backup"
  /\ file = model.data

(* The messages open_save was called with as a result of try_recv, in call
   order. *)
MessageOpens ==
  LET received == SelectSeq(rec.opened, LAMBDA e : e.msg # None)
  IN [ i \in 1..Len(received) |-> received[i].msg ]

GuiMessages == { SaveFileOpened(i, p) : i \in 1..MaxDialogs, p \in GuiPaths }

(* C26: every open_save call is made by the UI thread; a dialog thread that
   picked a path has sent exactly one message with it, one that was
   cancelled none; the messages passed to open_save are, in order, the first
   messages sent, each once; an update call passes at most one; and with
   update called again and again every sent message is eventually passed. *)
C26_MessagesReachUiThread ==
  /\ [](pc = "gui" =>
          /\ \A k \in 1..Len(rec.opened) : rec.opened[k].thread = "ui"
          /\ \A i \in 1..Len(rec.dialogs) :
               LET mine == { k \in 1..Len(rec.sent) : rec.sent[k].from = i }
               IN IF rec.dialogs[i].picked = None THEN mine = {}
                  ELSE /\ Cardinality(mine) = 1
                       /\ \A k \in mine : rec.sent[k].filepath = rec.dialogs[i].picked
          /\ Len(MessageOpens) <= Len(rec.sent)
          /\ \A k \in 1..Len(MessageOpens) : MessageOpens[k] = rec.sent[k])
  /\ [][pc = "gui" => Len(MessageOpens') <= Len(MessageOpens) + 1]_vars
  /\ \A m \in GuiMessages :
       (pc = "gui" /\ \E k \in 1..Len(rec.sent) : rec.sent[k] = m)
         ~> (\E k \in 1..Len(MessageOpens) : MessageOpens[k] = m)

(* Two dialogs were open at once, the second one sent first, and both
   messages have been passed to open_save. *)
C26_Witness ==
  /\ pc = "gui"
  /\ Len(rec.sent) = 2
  /\ rec.sent[1].from = 2
  /\ rec.sent[2].from = 1
  /\ Len(MessageOpens) = 2

====
